---- MODULE Spec2Model ----
(***************************************************************************)
(* Timeline position model, editor store and preview playback              *)
(* synchronizer of zt-video-tools.                                         *)
(*                                                                         *)
(* Clip ids and transition keys are JavaScript strings; they are modelled  *)
(* as sequences of one-character strings so that string concatenation and  *)
(* String.prototype.includes are computed, not assumed.  Times are         *)
(* integers (one unit = one second in the worked scenario); the resolver   *)
(* only adds, subtracts and compares them, and the one division (the       *)
(* transition progress) is kept as an exact fraction.                      *)
(***************************************************************************)
EXTENDS Integers, Sequences, FiniteSets, TLC

VARIABLES clips, timeline, currentTime, isPlaying, selectedClipId, player, last

vars == <<clips, timeline, currentTime, isPlaying, selectedClipId, player, last>>

(***************************************************************************)
(* Bounds and input sets                                                   *)
(***************************************************************************)
IdA == <<"a">>
IdB == <<"b">>
IdAB == <<"a", "b">>

\* Ids handed to the Timeline functions: any strings, one a substring of another.
Ids == {IdA, IdB, IdAB}

\* Ids handed to the store: generateId() never repeats and never nests ids.
StoreIds == {IdA, IdB}

\* moveClip is tried with every newIndex in -MaxIndex..MaxIndex.
MaxIndex == 3

\* Durations of the Transition values handed to the Timeline's setTransition.
MaxTransDur == 4

\* metadata.duration of an imported clip ranges over 1..MaxClipDur.
MaxClipDur == 2

\* Requested transition durations range over 1..MaxReqDur (or are left out).
MaxReqDur == 3

\* seek is tried with every time in -1..MaxSeek.
MaxSeek == 1

\* getClipAtTime is queried at every time in -1..MaxT.
MaxT == 14

\* null where a clip id is expected; it is no clip id.
Null == <<"null">>

\* null where a Transition is expected.
NullTransition == [null |-> TRUE]

\* An optional number is <<>> when left out and <<n>> when given.
Undefined == <<>>

TransitionTypes == {"none", "crossfade", "fadeToBlack", "fadeToWhite"}

(***************************************************************************)
(* JavaScript built-ins used by the code                                   *)
(***************************************************************************)
Min(a, b) == IF a <= b THEN a ELSE b
Max(a, b) == IF a >= b THEN a ELSE b

\* Array.prototype.indexOf: 0-based index of the first occurrence, or -1.
IndexOf(arr, x) ==
  IF \E i \in 1..Len(arr) : arr[i] = x
    THEN (CHOOSE i \in 1..Len(arr) : arr[i] = x /\ \A j \in 1..(i - 1) : arr[j] # x) - 1
    ELSE -1

\* String.prototype.includes on strings kept as character sequences.
Includes(str, sub) ==
  \E i \in 0..(Len(str) - Len(sub)) : SubSeq(str, i + 1, i + Len(sub)) = sub

\* The start position Array.prototype.splice derives from its first argument.
SpliceStart(len, start) ==
  IF start < 0 THEN Max(len + start, 0) ELSE Min(start, len)

\* arr.splice(start, 1) on a copy: removes one element at the 0-based start.
SpliceRemove(arr, start) ==
  LET s == SpliceStart(Len(arr), start)
  IN  SubSeq(arr, 1, s) \o SubSeq(arr, s + 2, Len(arr))

\* arr.splice(start, 0, x) on a copy: inserts x at the 0-based start.
SpliceInsert(arr, start, x) ==
  LET s == SpliceStart(Len(arr), start)
  IN  SubSeq(arr, 1, s) \o <<x>> \o SubSeq(arr, s + 1, Len(arr))

\* Array.prototype.filter((id) => id !== x).
FilterOut(arr, x) == SelectSeq(arr, LAMBDA e : e # x)

\* Map.prototype.set / delete on a copy of the map.
MapSet(m, k, v) == [x \in (DOMAIN m) \cup {k} |-> IF x = k THEN v ELSE m[x]]
MapDelete(m, k) == [x \in (DOMAIN m) \ {k} |-> m[x]]
EmptyMap == [x \in {} |-> x]

Range(arr) == {arr[i] : i \in 1..Len(arr)}

(***************************************************************************)
(* Transition entity                                                       *)
(***************************************************************************)
DEFAULT_TRANSITION_DURATION == 1

createTransition(id, type, duration) ==
  [id |-> id, type |-> type,
   duration |-> IF duration = Undefined THEN DEFAULT_TRANSITION_DURATION ELSE duration[1]]

createTransitionKey(fromClipId, toClipId) == fromClipId \o <<"_">> \o toClipId

getMaxTransitionDuration(outgoingClipDuration, incomingClipDuration) ==
  Min(outgoingClipDuration, incomingClipDuration) * 2

(***************************************************************************)
(* Clip entity                                                             *)
(***************************************************************************)
createClip(id, duration) == [id |-> id, trimStart |-> 0, trimEnd |-> duration]

\* Mutant: the trim start is forgotten.
getClipDuration_IgnoresTrimStart(clip) == clip.trimEnd

getClipDuration(clip) == clip.trimEnd - clip.trimStart

(***************************************************************************)
(* Timeline entity: mutation functions                                     *)
(***************************************************************************)
createTimeline == [clipIds |-> <<>>, transitions |-> EmptyMap]

addClipToTimeline(tl, clipId) ==
  [tl EXCEPT !.clipIds = Append(tl.clipIds, clipId)]

\* Mutant: only the keys that begin with clipId are dropped.
PurgeTransitions_FromKeysOnly(transitions, clipId) ==
  [k \in {x \in DOMAIN transitions :
            ~(Len(x) >= Len(clipId) /\ SubSeq(x, 1, Len(clipId)) = clipId)}
     |-> transitions[k]]

\* The loop shared by removeClip and moveClip: drop every key that includes clipId.
PurgeTransitions(transitions, clipId) ==
  [k \in {x \in DOMAIN transitions : ~Includes(x, clipId)} |-> transitions[k]]

\* Mutant: the transitions are purged but the id stays in the sequence.
removeClipFromTimeline_KeepsId(tl, clipId) ==
  [clipIds |-> tl.clipIds,
   transitions |-> PurgeTransitions(tl.transitions, clipId)]


removeClipFromTimeline(tl, clipId) ==
  [clipIds |-> FilterOut(tl.clipIds, clipId),
   transitions |-> PurgeTransitions(tl.transitions, clipId)]

\* Mutant: the not-found check is missing.
moveClipThrows_Never(tl, clipId) == FALSE

\* moveClipInTimeline throws exactly when indexOf gives -1.
moveClipThrows(tl, clipId) == IndexOf(tl.clipIds, clipId) = -1

\* Mutant: the purge is skipped when the clip lands on the index it had.
moveClipInTimeline_PurgeOnlyOnChange(tl, clipId, newIndex) ==
  LET currentIndex == IndexOf(tl.clipIds, clipId)
      removed == SpliceRemove(tl.clipIds, currentIndex)
      newClipIds == SpliceInsert(removed, newIndex, clipId)
  IN  [clipIds |-> newClipIds,
       transitions |-> IF newClipIds = tl.clipIds THEN tl.transitions
                       ELSE PurgeTransitions(tl.transitions, clipId)]

moveClipInTimeline(tl, clipId, newIndex) ==
  LET currentIndex == IndexOf(tl.clipIds, clipId)
      removed == SpliceRemove(tl.clipIds, currentIndex)
  IN  [clipIds |-> SpliceInsert(removed, newIndex, clipId),
       transitions |-> PurgeTransitions(tl.transitions, clipId)]

\* Mutant: only the existence of the two ids is validated.
setTransitionThrows_ExistenceOnly(tl, fromClipId, toClipId) ==
  \/ IndexOf(tl.clipIds, fromClipId) = -1
  \/ IndexOf(tl.clipIds, toClipId) = -1

\* setTransition throws when an id is missing or toIndex is not fromIndex + 1.
setTransitionThrows(tl, fromClipId, toClipId) ==
  LET fromIndex == IndexOf(tl.clipIds, fromClipId)
      toIndex == IndexOf(tl.clipIds, toClipId)
  IN  \/ fromIndex = -1
      \/ toIndex = -1
      \/ toIndex # fromIndex + 1

setTransition(tl, fromClipId, toClipId, transition) ==
  [tl EXCEPT !.transitions =
     MapSet(tl.transitions, createTransitionKey(fromClipId, toClipId), transition)]

removeTransition(tl, fromClipId, toClipId) ==
  [tl EXCEPT !.transitions =
     MapDelete(tl.transitions, createTransitionKey(fromClipId, toClipId))]

getTransitionBetween(tl, fromClipId, toClipId) ==
  LET key == createTransitionKey(fromClipId, toClipId)
  IN  IF key \in DOMAIN tl.transitions THEN tl.transitions[key] ELSE NullTransition

(***************************************************************************)
(* Timeline entity: position model                                         *)
(***************************************************************************)
HasTransition(tl, fromClipId, toClipId) ==
  createTransitionKey(fromClipId, toClipId) \in DOMAIN tl.transitions

RECURSIVE DurationFrom(_, _, _, _)
\* The loop of getTimelineDuration from 1-based index i with running total.
DurationFrom(tl, cl, i, totalDuration) ==
  IF i > Len(tl.clipIds) THEN totalDuration
  ELSE LET clipId == tl.clipIds[i]
       IN  IF clipId \notin DOMAIN cl THEN DurationFrom(tl, cl, i + 1, totalDuration)
           ELSE LET added == totalDuration + getClipDuration(cl[clipId])
                    overlap ==
                      IF i < Len(tl.clipIds) /\ HasTransition(tl, clipId, tl.clipIds[i + 1])
                        THEN tl.transitions[createTransitionKey(clipId, tl.clipIds[i + 1])].duration
                        ELSE 0
                IN  DurationFrom(tl, cl, i + 1, added - overlap)

RECURSIVE SumDurations(_, _, _)
SumDurations(tl, cl, i) ==
  IF i > Len(tl.clipIds) THEN 0
  ELSE (IF tl.clipIds[i] \in DOMAIN cl THEN cl[tl.clipIds[i]].trimEnd - cl[tl.clipIds[i]].trimStart
        ELSE 0) + SumDurations(tl, cl, i + 1)

\* Mutant: the transition overlaps are not subtracted.
getTimelineDuration_NoOverlap(tl, cl) == SumDurations(tl, cl, 1)

getTimelineDuration(tl, cl) == Max(0, DurationFrom(tl, cl, 1, 0))

RECURSIVE PositionsFrom(_, _, _, _)
\* The loop of calculateClipPositions from 1-based index i with running time.
PositionsFrom(tl, cl, i, time) ==
  IF i > Len(tl.clipIds) THEN <<>>
  ELSE LET clipId == tl.clipIds[i]
       IN  IF clipId \notin DOMAIN cl THEN PositionsFrom(tl, cl, i + 1, time)
           ELSE LET advanced == time + getClipDuration(cl[clipId])
                    overlap ==
                      IF i < Len(tl.clipIds) /\ HasTransition(tl, clipId, tl.clipIds[i + 1])
                        THEN tl.transitions[createTransitionKey(clipId, tl.clipIds[i + 1])].duration
                        ELSE 0
                IN  <<[clipId |-> clipId, startInTimeline |-> time]>>
                      \o PositionsFrom(tl, cl, i + 1, advanced - overlap)

calculateClipPositions(tl, cl) == PositionsFrom(tl, cl, 1, 0)

\* Math.min(1, Math.max(0, elapsed / duration)) as an exact fraction num/den.
\* 0 is [0,1], 1 is [1,1]; 0/0 is NaN, which both Math.max and Math.min pass on.
TransitionProgress(elapsed, duration) ==
  IF duration = 0
    THEN IF elapsed = 0 THEN [num |-> 0, den |-> 0]
         ELSE IF elapsed > 0 THEN [num |-> 1, den |-> 1] ELSE [num |-> 0, den |-> 1]
    ELSE LET n == IF duration < 0 THEN -elapsed ELSE elapsed
             d == IF duration < 0 THEN -duration ELSE duration
         IN  IF n <= 0 THEN [num |-> 0, den |-> 1]
             ELSE IF n >= d THEN [num |-> 1, den |-> 1]
             ELSE [num |-> n, den |-> d]

RECURSIVE ScanPositions(_, _, _, _, _)
\* The loop of getClipAtTime over clipPositions from 1-based index i.
ScanPositions(tl, cl, clipPositions, i, time) ==
  IF i > Len(clipPositions) THEN [type |-> "empty"]
  ELSE
    LET pos == clipPositions[i]
        clip == cl[pos.clipId]
        clipEnd == pos.startInTimeline + getClipDuration(clip)
        hasNext == i < Len(clipPositions)
        nextPos == clipPositions[i + 1]
        inZone ==
          /\ hasNext
          /\ HasTransition(tl, pos.clipId, nextPos.clipId)
          /\ nextPos.clipId \in DOMAIN cl
          /\ time >= nextPos.startInTimeline
          /\ time < clipEnd
    IN  IF inZone
          THEN LET nextClip == cl[nextPos.clipId]
                   transition == tl.transitions[createTransitionKey(pos.clipId, nextPos.clipId)]
               IN  [type |-> "transition",
                    outgoing |-> [clip |-> clip,
                                  relativeTime |-> clip.trimStart + (time - pos.startInTimeline)],
                    incoming |-> [clip |-> nextClip,
                                  relativeTime |-> nextClip.trimStart + (time - nextPos.startInTimeline)],
                    transition |-> transition,
                    progress |-> TransitionProgress(time - nextPos.startInTimeline,
                                                    transition.duration)]
        ELSE IF time >= pos.startInTimeline /\ time < clipEnd
          THEN [type |-> "single", clip |-> clip,
                relativeTime |-> clip.trimStart + (time - pos.startInTimeline)]
        ELSE ScanPositions(tl, cl, clipPositions, i + 1, time)

getClipAtTime(tl, cl, time) ==
  IF Len(tl.clipIds) = 0 THEN [type |-> "empty"]
  ELSE ScanPositions(tl, cl, calculateClipPositions(tl, cl), 1, time)

\* getClipStartTime: the position entry of targetClipId, or 0 when it has none.
getClipStartTime(tl, cl, targetClipId) ==
  LET positions == calculateClipPositions(tl, cl)
      found == {i \in 1..Len(positions) : positions[i].clipId = targetClipId}
  IN  IF found = {} THEN 0
      ELSE positions[CHOOSE i \in found : \A j \in found : i <= j].startInTimeline

(***************************************************************************)
(* Preview: the decoders (one HTMLVideoElement per clip) and the commands  *)
(* the playback hook sends them.  In this part of the model one time unit  *)
(* is one millisecond.  A volume is an exact fraction, like the progress.  *)
(* The hook's code is threaded through a record s = [videos, log, onPause]:*)
(* videos is the state of the decoders, log the commands sent so far by    *)
(* the running callback, onPause whether a rejected play() has queued the  *)
(* handler that calls onPause.                                             *)
(***************************************************************************)
One == [num |-> 1, den |-> 1]

Zero == [num |-> 0, den |-> 1]

\* 1 - progress for a progress in [0, 1].
Complement(progress) ==
  IF progress.num = 0 THEN One
  ELSE IF progress.num = progress.den THEN Zero
  ELSE [num |-> progress.den - progress.num, den |-> progress.den]

\* Math.max(0, Math.min(1, volume)).
clampVolume(volume) ==
  IF volume.num <= 0 THEN Zero
  ELSE IF volume.num >= volume.den THEN One
  ELSE volume

\* A video element as getOrCreateVideo leaves it: at 0, paused, full volume.
NewVideo == [currentTime |-> 0, paused |-> TRUE, volume |-> One]

\* The length of a clip's media.  createClip sets trimEnd to the media
\* duration and trimStart to 0, and no store action trims a clip.
SourceDuration(clip) == clip.trimEnd

Cmd(id, cmd, arg) == [id |-> id, cmd |-> cmd, arg |-> arg]

\* video.currentTime = t: the element clamps the position to its media.
VideoSetCurrentTime(s, id, t) ==
  [s EXCEPT !.videos[id].currentTime = Max(0, Min(t, SourceDuration(clips[id]))),
            !.log = Append(@, Cmd(id, "seek", t))]

\* video.volume = volume.
VideoSetVolume(s, id, volume) ==
  [s EXCEPT !.videos[id].volume = volume,
            !.log = Append(@, Cmd(id, "volume", volume))]

\* video.pause().
VideoPause(s, id) ==
  [s EXCEPT !.videos[id].paused = TRUE,
            !.log = Append(@, Cmd(id, "pause", TRUE))]

\* video.play().catch(handler).  A request on a paused element is accepted or
\* rejected by the browser; a rejected one leaves the element paused and runs
\* the handler later.  An accepted one on an element at the end of its media
\* starts again from 0.
VideoPlay(s, id, accepted, handler) ==
  LET v == s.videos[id]
      rejected == v.paused /\ ~accepted
      ended == v.currentTime >= SourceDuration(clips[id])
  IN  [s EXCEPT !.videos[id] =
                   IF rejected THEN v
                   ELSE [v EXCEPT !.paused = FALSE,
                                  !.currentTime = IF ended THEN 0 ELSE @],
                !.log = Append(@, Cmd(id, "play",
                                      [wasPaused |-> v.paused, rejected |-> rejected])),
                !.onPause = @ \/ (rejected /\ handler = "onPause")]

RECURSIVE PauseEach(_, _, _)
\* The loop of pauseAll over the video map, from 1-based index i of its ids.
PauseEach(s, ids, i) ==
  IF i > Len(ids) THEN s
  ELSE LET id == ids[i]
           s1 == IF ~s.videos[id].paused THEN VideoPause(s, id) ELSE s
       IN  PauseEach(VideoSetVolume(s1, id, One), ids, i + 1)

\* Mutant: pauseAll leaves the elements as they are.
pauseAll_Nothing(s, ids) == s

pauseAll(s, ids) == PauseEach(s, ids, 1)

RECURSIVE PauseEachExcept(_, _, _, _)
\* The loop of pauseAllExcept: every element that is not active is paused,
\* set to full volume and rewound.
PauseEachExcept(s, ids, activeIds, i) ==
  IF i > Len(ids) THEN s
  ELSE LET id == ids[i]
           s1 == IF ~s.videos[id].paused THEN VideoPause(s, id) ELSE s
           s2 == VideoSetCurrentTime(VideoSetVolume(s1, id, One), id, 0)
       IN  PauseEachExcept(IF id \in activeIds THEN s ELSE s2, ids, activeIds, i + 1)

pauseAllExcept(s, ids, activeIds) == PauseEachExcept(s, ids, activeIds, 1)

\* applyVolumeCrossfade(outgoingVideo, incomingVideo, progress).
applyVolumeCrossfade(s, outgoingId, incomingId, progress) ==
  VideoSetVolume(VideoSetVolume(s, outgoingId, clampVolume(Complement(progress))),
                 incomingId, clampVolume(progress))

\* The ids of the video map in insertion order: one element per timeline clip.
VideoIds == timeline.clipIds

\* getPositionResult(): the resolver applied to the current store state.
getPositionResult == getClipAtTime(timeline, clips, currentTime)

\* The hook's state for a set of clip ids: one fresh element per id, no frame
\* requested, the loop's locals unset, the effects run for the initial state.
\* published is the clock value the running loop last wrote, if it wrote one
\* since it started and since the user last moved the clock.  frame tells
\* whether the frame that playbackFrameRef names is pending; orphans counts
\* the frames that were still pending when the ref was overwritten.
CreatePlayer(ids) ==
  [videos |-> [id \in ids |-> NewVideo],
   frame |-> FALSE, orphans |-> 0, lastClipId |-> Null, wasInTransition |-> FALSE,
   seenPlaying |-> FALSE, seenTime |-> 0, onPause |-> FALSE, published |-> Undefined]

\* cancelAnimationFrame(playbackFrameRef.current) that cancels nothing.
CancelFrame_Nothing(p) == p

\* cancelAnimationFrame(playbackFrameRef.current)
CancelFrame(p) == [p EXCEPT !.frame = FALSE]

\* playbackFrameRef.current = requestAnimationFrame(syncPlayback)
RequestFrame(p) ==
  [p EXCEPT !.orphans = IF p.frame THEN @ + 1 ELSE @, !.frame = TRUE]

\* The frame that playbackFrameRef names has come: its callback starts.
FrameRan(p) == [p EXCEPT !.frame = FALSE]

(***************************************************************************)
(* usePlaybackSync: the three effects of the hook and the tick of its      *)
(* synchronisation loop.  The thresholds are the program's, in             *)
(* milliseconds.                                                           *)
(***************************************************************************)
SYNC_DRIFT_THRESHOLD == 150

CLIP_END_THRESHOLD == 50

TIMELINE_END_THRESHOLD == 10

CLIP_BOUNDARY_OFFSET == 1

Abs(x) == IF x < 0 THEN -x ELSE x

\* The commands of a callback start from the decoders as they are.
Begin == [videos |-> player.videos, log |-> <<>>, onPause |-> FALSE]

\* The play/pause effect (dependencies: isPlaying).
PlayPauseBody(s, acc) ==
  IF ~isPlaying THEN pauseAll(s, VideoIds)
  ELSE
    LET result == getPositionResult
    IN  IF result.type = "empty" THEN s
        ELSE IF result.type = "single" THEN
          LET id == result.clip.id
              s1 == pauseAllExcept(s, VideoIds, {id})
              s2 == VideoSetVolume(s1, id, One)
              s3 == VideoSetCurrentTime(s2, id, result.relativeTime)
          IN  VideoPlay(s3, id, acc[id], "onPause")
        ELSE
          LET out == result.outgoing.clip.id
              inc == result.incoming.clip.id
              s1 == pauseAllExcept(s, VideoIds, {out, inc})
              s2 == VideoSetCurrentTime(s1, out, result.outgoing.relativeTime)
              s3 == VideoSetVolume(s2, out, clampVolume(Complement(result.progress)))
              s4 == VideoPlay(s3, out, acc[out], "log")
              s5 == VideoSetCurrentTime(s4, inc, result.incoming.relativeTime)
              s6 == VideoSetVolume(s5, inc, clampVolume(result.progress))
          IN  VideoPlay(s6, inc, acc[inc], "log")

\* Mutant: scrubbing also starts the decoder of a single clip.
ScrubBody_Starts(s) ==
  IF isPlaying THEN s
  ELSE
    LET result == getPositionResult
    IN  IF result.type = "single"
          THEN VideoPlay(VideoSetCurrentTime(s, result.clip.id, result.relativeTime),
                         result.clip.id, TRUE, "log")
          ELSE s

\* The scrub effect (dependencies: currentTime, isPlaying).
ScrubBody(s) ==
  IF isPlaying THEN s
  ELSE
    LET result == getPositionResult
    IN  IF result.type = "empty" THEN s
        ELSE IF result.type = "single" THEN
          VideoSetVolume(VideoSetCurrentTime(s, result.clip.id, result.relativeTime),
                         result.clip.id, One)
        ELSE
          LET out == result.outgoing.clip.id
              inc == result.incoming.clip.id
              s1 == VideoSetCurrentTime(s, out, result.outgoing.relativeTime)
              s2 == VideoSetCurrentTime(s1, inc, result.incoming.relativeTime)
          IN  applyVolumeCrossfade(s2, out, inc, result.progress)

RECURSIVE CleanupEach(_, _, _, _)
\* The forEach of the tick after a transition: every playing element other
\* than the resolved clip's is paused and set to full volume.
CleanupEach(s, ids, keepId, i) ==
  IF i > Len(ids) THEN s
  ELSE LET id == ids[i]
       IN  CleanupEach(IF id # keepId /\ ~s.videos[id].paused
                         THEN VideoSetVolume(VideoPause(s, id), id, One)
                         ELSE s,
                       ids, keepId, i + 1)

\* Mutant: the incoming decoder is repositioned on every tick.
NeedsReseek_Always(drift, paused) == TRUE

\* drift > SYNC_DRIFT_THRESHOLD || incomingVideo.paused
NeedsReseek(drift, paused) == drift > SYNC_DRIFT_THRESHOLD \/ paused

\* Mutant: the two volumes of the crossfade are exchanged.
SyncIncoming_SwappedVolumes(s, result, acc) ==
  VideoSetVolume(VideoSetVolume(s, result.outgoing.clip.id, clampVolume(result.progress)),
                 result.incoming.clip.id, clampVolume(Complement(result.progress)))

\* The transition branch of the tick for a found incoming element.
SyncIncoming(s, result, acc) ==
  LET out == result.outgoing.clip.id
      inc == result.incoming.clip.id
      expectedTime == result.incoming.relativeTime
      drift == Abs(s.videos[inc].currentTime - expectedTime)
      s1 == IF NeedsReseek(drift, s.videos[inc].paused)
              THEN VideoSetCurrentTime(s, inc, expectedTime) ELSE s
      s2 == IF s1.videos[inc].paused THEN VideoPlay(s1, inc, acc[inc], "log") ELSE s1
      s3 == VideoSetVolume(s2, out, clampVolume(Complement(result.progress)))
  IN  VideoSetVolume(s3, inc, clampVolume(result.progress))

\* The clip-switching block of the tick.
SwitchClip(s, result, lastClipId, acc) ==
  LET id == result.clip.id
      s1 == IF lastClipId \in DOMAIN s.videos /\ ~s.videos[lastClipId].paused
              THEN VideoSetVolume(VideoPause(s, lastClipId), lastClipId, One)
              ELSE s
      s2 == VideoSetCurrentTime(s1, id, result.relativeTime)
      s3 == VideoSetVolume(s2, id, One)
  IN  VideoPlay(s3, id, acc[id], "log")

\* timeInClip >= clipDuration - CLIP_END_THRESHOLD
ClipEnding(timeInClip, clipDuration) == timeInClip >= clipDuration - CLIP_END_THRESHOLD

\* nextTime >= totalDur - TIMELINE_END_THRESHOLD
TimelineEnding(nextTime, totalDur) == nextTime >= totalDur - TIMELINE_END_THRESHOLD

\* Mutant: the stop at the end leaves the clock where it is.
StopAtEnd_KeepsClock(r) == [r EXCEPT !.isPlaying = FALSE, !.frame = FALSE]

\* pause(); seek(0); return: the tick stops playback and schedules nothing.
StopAtEnd(r) == [r EXCEPT !.isPlaying = FALSE, !.currentTime = 0, !.frame = FALSE]

\* syncPlayback: one tick.  elapsed says whether more than
\* STATE_UPDATE_INTERVAL_MS passed since the last clock update, acc[id]
\* whether the browser accepts a play() of id.  The result holds the store
\* fields and locals after the tick and whether the next tick was requested.
syncPlayback(elapsed, acc) ==
  LET r0 == [isPlaying |-> isPlaying, currentTime |-> currentTime, frame |-> FALSE,
             lastClipId |-> player.lastClipId,
             wasInTransition |-> player.wasInTransition,
             published |-> player.published, s |-> Begin]
      result == getClipAtTime(timeline, clips, currentTime)
  IN
  IF ~isPlaying THEN r0
  ELSE IF result.type = "empty" THEN StopAtEnd(r0)
  ELSE
    LET single == result.type = "single"
        primaryClip == IF single THEN result.clip ELSE result.outgoing.clip
        currentClipId == primaryClip.id
        s1 == IF single
                THEN IF player.wasInTransition
                       THEN CleanupEach(r0.s, VideoIds, currentClipId, 1) ELSE r0.s
                ELSE SyncIncoming(r0.s, result, acc)
        s2 == IF player.lastClipId # Null /\ player.lastClipId # currentClipId /\ single
                THEN SwitchClip(s1, result, player.lastClipId, acc) ELSE s1
        r1 == [r0 EXCEPT !.wasInTransition = ~single, !.lastClipId = currentClipId]
        primaryVideo == s2.videos[currentClipId]
        clipStartInTimeline == getClipStartTime(timeline, clips, currentClipId)
        timeInClip == primaryVideo.currentTime - primaryClip.trimStart
        clipDuration == getClipDuration(primaryClip)
        nextTime == clipStartInTimeline + clipDuration + CLIP_BOUNDARY_OFFSET
        totalDur == getTimelineDuration(timeline, clips)
    IN
    IF primaryVideo.paused
      THEN [r1 EXCEPT !.s = VideoPlay(s2, currentClipId, acc[currentClipId], "log"),
                      !.frame = TRUE]
    ELSE IF single /\ ClipEnding(timeInClip, clipDuration)
      THEN IF TimelineEnding(nextTime, totalDur)
             THEN StopAtEnd([r1 EXCEPT !.s = s2])
             ELSE [r1 EXCEPT !.s = s2, !.frame = TRUE,
                             !.currentTime = Max(0, nextTime),
                             !.published = <<Max(0, nextTime)>>]
    ELSE IF elapsed
      THEN [r1 EXCEPT !.s = s2, !.frame = TRUE,
                      !.currentTime = Max(0, clipStartInTimeline + timeInClip),
                      !.published = <<Max(0, clipStartInTimeline + timeInClip)>>]
      ELSE [r1 EXCEPT !.s = s2, !.frame = TRUE]

(***************************************************************************)
(* SpecTimeline: the Timeline mutation functions applied, one call after   *)
(* another, to an initially empty timeline.  last records the call, its    *)
(* arguments, whether it threw and the timeline it was applied to.         *)
(***************************************************************************)
\* Transition values handed to the Timeline's setTransition.
TransitionValues ==
  {[id |-> <<"t">>, type |-> "crossfade", duration |-> d] : d \in 1..MaxTransDur}

InitTimeline ==
  /\ clips = EmptyMap
  /\ timeline = createTimeline
  /\ currentTime = 0
  /\ isPlaying = FALSE
  /\ selectedClipId = Null
  /\ player = CreatePlayer({})
  /\ last = [op |-> "init"]

CallAddClipToTimeline ==
  \E clipId \in Ids \ Range(timeline.clipIds) :
    /\ timeline' = addClipToTimeline(timeline, clipId)
    /\ last' = [op |-> "addClip", clipId |-> clipId, threw |-> FALSE, before |-> timeline]
    /\ UNCHANGED <<player, clips, currentTime, isPlaying, selectedClipId>>

CallRemoveClipFromTimeline ==
  \E clipId \in Ids :
    /\ timeline' = removeClipFromTimeline(timeline, clipId)
    /\ last' = [op |-> "removeClip", clipId |-> clipId, threw |-> FALSE, before |-> timeline]
    /\ UNCHANGED <<player, clips, currentTime, isPlaying, selectedClipId>>

CallMoveClipInTimeline ==
  \E clipId \in Ids, newIndex \in (-MaxIndex)..MaxIndex :
    /\ timeline' = IF moveClipThrows(timeline, clipId) THEN timeline
                   ELSE moveClipInTimeline(timeline, clipId, newIndex)
    /\ last' = [op |-> "moveClip", clipId |-> clipId, newIndex |-> newIndex,
                threw |-> moveClipThrows(timeline, clipId), before |-> timeline]
    /\ UNCHANGED <<player, clips, currentTime, isPlaying, selectedClipId>>

CallSetTransition ==
  \E fromClipId \in Ids, toClipId \in Ids, transition \in TransitionValues :
    /\ timeline' = IF setTransitionThrows(timeline, fromClipId, toClipId) THEN timeline
                   ELSE setTransition(timeline, fromClipId, toClipId, transition)
    /\ last' = [op |-> "setTransition", fromClipId |-> fromClipId, toClipId |-> toClipId,
                transition |-> transition,
                threw |-> setTransitionThrows(timeline, fromClipId, toClipId),
                before |-> timeline]
    /\ UNCHANGED <<player, clips, currentTime, isPlaying, selectedClipId>>

CallRemoveTransition ==
  \E fromClipId \in Ids, toClipId \in Ids :
    /\ timeline' = removeTransition(timeline, fromClipId, toClipId)
    /\ last' = [op |-> "removeTransition", fromClipId |-> fromClipId, toClipId |-> toClipId,
                threw |-> FALSE, before |-> timeline]
    /\ UNCHANGED <<player, clips, currentTime, isPlaying, selectedClipId>>

NextTimeline ==
  \/ CallAddClipToTimeline
  \/ CallRemoveClipFromTimeline
  \/ CallMoveClipInTimeline
  \/ CallSetTransition
  \/ CallRemoveTransition

SpecTimeline == InitTimeline /\ [][NextTimeline]_vars

(***************************************************************************)
(* Spec: the editor store.  Every action is one store action; a function   *)
(* passed to set() that throws leaves the state as it was.  last records   *)
(* the action, the arguments the claims speak of and whether it threw.     *)
(***************************************************************************)
StoreState ==
  [clips |-> clips, timeline |-> timeline, currentTime |-> currentTime,
   isPlaying |-> isPlaying, selectedClipId |-> selectedClipId]

\* Mutant: the requested duration is stored without the clamp.
FinalDuration_Unclamped(duration, maxDuration) ==
  IF duration = Undefined THEN DEFAULT_TRANSITION_DURATION ELSE duration[1]

\* Math.min(duration ?? DEFAULT_TRANSITION_DURATION, maxDuration)
FinalDuration(duration, maxDuration) ==
  Min(IF duration = Undefined THEN DEFAULT_TRANSITION_DURATION ELSE duration[1], maxDuration)

\* The store's setTransition returns the state untouched when a clip is missing.
StoreSetTransitionIgnored(cl, fromClipId, toClipId) ==
  fromClipId \notin DOMAIN cl \/ toClipId \notin DOMAIN cl

\* The Transition the store's setTransition builds.
StoreTransition(cl, fromClipId, toClipId, type, duration) ==
  createTransition(<<"transition", "_">> \o fromClipId \o <<"_">> \o toClipId, type,
                   <<FinalDuration(duration,
                                   getMaxTransitionDuration(getClipDuration(cl[fromClipId]),
                                                            getClipDuration(cl[toClipId])))>>)

Init ==
  /\ clips = EmptyMap
  /\ timeline = createTimeline
  /\ currentTime = 0
  /\ isPlaying = FALSE
  /\ selectedClipId = Null
  /\ player = CreatePlayer({})
  /\ last = [op |-> "init"]

AddClip ==
  \E id \in StoreIds \ ((DOMAIN clips) \cup Range(timeline.clipIds)), duration \in 1..MaxClipDur :
    /\ clips' = MapSet(clips, id, createClip(id, duration))
    /\ timeline' = addClipToTimeline(timeline, id)
    /\ last' = [op |-> "addClip", clipId |-> id, threw |-> FALSE]
    /\ UNCHANGED <<player, currentTime, isPlaying, selectedClipId>>

RemoveClip ==
  \E clipId \in StoreIds :
    /\ clips' = MapDelete(clips, clipId)
    /\ timeline' = removeClipFromTimeline(timeline, clipId)
    /\ selectedClipId' = IF selectedClipId = clipId THEN Null ELSE selectedClipId
    /\ last' = [op |-> "removeClip", clipId |-> clipId, threw |-> FALSE]
    /\ UNCHANGED <<player, currentTime, isPlaying>>

SelectClip ==
  \E clipId \in StoreIds \cup {Null} :
    /\ selectedClipId' = clipId
    /\ last' = [op |-> "selectClip", clipId |-> clipId, threw |-> FALSE]
    /\ UNCHANGED <<player, clips, timeline, currentTime, isPlaying>>

MoveClip ==
  \E clipId \in StoreIds, newIndex \in (-MaxIndex)..MaxIndex :
    /\ timeline' = IF moveClipThrows(timeline, clipId) THEN timeline
                   ELSE moveClipInTimeline(timeline, clipId, newIndex)
    /\ last' = [op |-> "moveClip", clipId |-> clipId, newIndex |-> newIndex,
                threw |-> moveClipThrows(timeline, clipId)]
    /\ UNCHANGED <<player, clips, currentTime, isPlaying, selectedClipId>>

SetTransition ==
  \E fromClipId \in StoreIds, toClipId \in StoreIds, type \in TransitionTypes,
     duration \in {Undefined} \cup {<<d>> : d \in 1..MaxReqDur} :
    LET ignored == StoreSetTransitionIgnored(clips, fromClipId, toClipId)
        threw == ~ignored /\ setTransitionThrows(timeline, fromClipId, toClipId)
    IN  /\ timeline' = IF ignored \/ threw THEN timeline
                       ELSE setTransition(timeline, fromClipId, toClipId,
                              StoreTransition(clips, fromClipId, toClipId, type, duration))
        /\ last' = [op |-> "setTransition", fromClipId |-> fromClipId, toClipId |-> toClipId,
                    duration |-> duration, ignored |-> ignored, threw |-> threw]
        /\ UNCHANGED <<player, clips, currentTime, isPlaying, selectedClipId>>

RemoveTransition ==
  \E fromClipId \in StoreIds, toClipId \in StoreIds :
    /\ timeline' = removeTransition(timeline, fromClipId, toClipId)
    /\ last' = [op |-> "removeTransition", fromClipId |-> fromClipId, toClipId |-> toClipId,
                threw |-> FALSE]
    /\ UNCHANGED <<player, clips, currentTime, isPlaying, selectedClipId>>

Play ==
  /\ isPlaying' = TRUE
  /\ last' = [op |-> "play", threw |-> FALSE]
  /\ UNCHANGED <<player, clips, timeline, currentTime, selectedClipId>>

Pause ==
  /\ isPlaying' = FALSE
  /\ last' = [op |-> "pause", threw |-> FALSE]
  /\ UNCHANGED <<player, clips, timeline, currentTime, selectedClipId>>

Seek ==
  \E time \in (-1)..MaxSeek :
    /\ currentTime' = Max(0, time)
    /\ last' = [op |-> "seek", time |-> time, threw |-> FALSE]
    /\ UNCHANGED <<player, clips, timeline, isPlaying, selectedClipId>>

Reset ==
  /\ clips' = EmptyMap
  /\ timeline' = createTimeline
  /\ currentTime' = 0
  /\ isPlaying' = FALSE
  /\ selectedClipId' = Null
  /\ last' = [op |-> "reset", threw |-> FALSE]
  /\ UNCHANGED player

Next ==
  \/ AddClip
  \/ RemoveClip
  \/ SelectClip
  \/ MoveClip
  \/ SetTransition
  \/ RemoveTransition
  \/ Play
  \/ Pause
  \/ Seek
  \/ Reset

Spec == Init /\ [][Next]_vars

(***************************************************************************)
(* Claims about the Timeline mutation functions (SpecTimeline)             *)
(***************************************************************************)
\* clipId is the from-id or the to-id of the pair that key k was built from.
KeyMentions(k, clipId) ==
  \E other \in Ids :
    \/ k = createTransitionKey(clipId, other)
    \/ k = createTransitionKey(other, clipId)

\* toClipId stands immediately after fromClipId in the sequence arr.
AdjacentIn(arr, fromClipId, toClipId) ==
  \E i \in 1..(Len(arr) - 1) : arr[i] = fromClipId /\ arr[i + 1] = toClipId

\* C1: after any sequence of addClip, removeClip, moveClip, setTransition and
\* removeTransition from the empty timeline, every key of the transition map
\* is the key of two ids that are adjacent in clipIds, in that order.
C1_TransitionKeysAdjacent ==
  \A k \in DOMAIN timeline.transitions :
    \E i \in 1..(Len(timeline.clipIds) - 1) :
      k = createTransitionKey(timeline.clipIds[i], timeline.clipIds[i + 1])

\* C7: moveClip of a present clip never throws, the clip ends at index
\* max(0, min(newIndex, length-1)) for every integer newIndex, and the other
\* clips keep their relative order.
C7_MoveClampsIndex ==
  last.op = "moveClip" =>
    LET n == Len(last.before.clipIds)
        present == last.clipId \in Range(last.before.clipIds)
    IN  /\ present => ~last.threw
        /\ ~last.threw =>
             /\ IndexOf(timeline.clipIds, last.clipId) = Max(0, Min(last.newIndex, n - 1))
             /\ FilterOut(timeline.clipIds, last.clipId)
                  = FilterOut(last.before.clipIds, last.clipId)

\* C8: every moveClip removes all transitions whose key mentions the moved
\* clip, and a move to the index the clip already has leaves clipIds as it was.
C8_MovePurgesTransitions ==
  (last.op = "moveClip" /\ ~last.threw) =>
    /\ \A k \in DOMAIN timeline.transitions : ~KeyMentions(k, last.clipId)
    /\ last.newIndex = IndexOf(last.before.clipIds, last.clipId)
         => timeline.clipIds = last.before.clipIds

\* C8 witness: a clip that had a transition was moved to its own index.
C8_Witness ==
  /\ last.op = "moveClip"
  /\ ~last.threw
  /\ last.newIndex = IndexOf(last.before.clipIds, last.clipId)
  /\ \E k \in DOMAIN last.before.transitions : KeyMentions(k, last.clipId)
  /\ Len(timeline.clipIds) >= 2

\* C10: setTransition throws unless toId stands at index(fromId)+1, leaving the
\* timeline as it was; when it succeeds it sets the entry of (fromId, toId) to
\* the given transition and changes nothing else.
C10_SetTransitionAdjacency ==
  last.op = "setTransition" =>
    LET b == last.before
        key == createTransitionKey(last.fromClipId, last.toClipId)
    IN  /\ last.threw <=> ~AdjacentIn(b.clipIds, last.fromClipId, last.toClipId)
        /\ last.threw => timeline = b
        /\ ~last.threw =>
             /\ timeline.clipIds = b.clipIds
             /\ DOMAIN timeline.transitions = (DOMAIN b.transitions) \cup {key}
             /\ timeline.transitions[key] = last.transition
             /\ \A k \in (DOMAIN b.transitions) \ {key} :
                  timeline.transitions[k] = b.transitions[k]

\* C10 witness: a successful setTransition overwrote an entry with a different
\* value while another entry was in the map.
C10_Witness ==
  /\ last.op = "setTransition"
  /\ ~last.threw
  /\ LET key == createTransitionKey(last.fromClipId, last.toClipId)
     IN  /\ key \in DOMAIN last.before.transitions
         /\ last.before.transitions[key] # last.transition
         /\ (DOMAIN last.before.transitions) \ {key} # {}

\* C11: after removeClip(timeline, id) the id is no longer in clipIds and
\* getTransitionBetween answers null for every ordered pair that has the id as
\* its first or as its second member.
C11_RemoveClipDropsTransitions ==
  last.op = "removeClip" =>
    /\ last.clipId \notin Range(timeline.clipIds)
    /\ \A other \in Ids :
         /\ getTransitionBetween(timeline, last.clipId, other) = NullTransition
         /\ getTransitionBetween(timeline, other, last.clipId) = NullTransition

\* C11 witness: the removed clip was in the timeline and was the second member
\* of a stored transition.
C11_Witness ==
  /\ last.op = "removeClip"
  /\ last.clipId \in Range(last.before.clipIds)
  /\ \E other \in Ids :
       getTransitionBetween(last.before, other, last.clipId) # NullTransition

\* C34: removeClip and moveClip keep every transition whose from-id and to-id
\* both differ from the given clip id, with the value it had.
C34_OtherTransitionsKept ==
  (last.op \in {"removeClip", "moveClip"} /\ ~last.threw) =>
    \A fromClipId \in Ids \ {last.clipId}, toClipId \in Ids \ {last.clipId} :
      getTransitionBetween(timeline, fromClipId, toClipId)
        = getTransitionBetween(last.before, fromClipId, toClipId)

(***************************************************************************)
(* Claims about the editor store (Spec)                                    *)
(***************************************************************************)
\* C6: the store's setTransition rejects a request only for a missing clip or
\* a non-adjacent pair, never for its duration; an accepted request stores a
\* duration <= 2*min(effective durations of the two clips), and a requested
\* duration above that maximum is stored as exactly the maximum.
C6_DurationClampedNotRejected ==
  last.op = "setTransition" =>
    LET from == last.fromClipId
        to == last.toClipId
        present == from \in DOMAIN clips /\ to \in DOMAIN clips
        adjacent == AdjacentIn(timeline.clipIds, from, to)
        rejected == last.ignored \/ last.threw
    IN  /\ rejected <=> ~(present /\ adjacent)
        /\ ~rejected =>
             LET stored == timeline.transitions[createTransitionKey(from, to)]
                 durFrom == clips[from].trimEnd - clips[from].trimStart
                 durTo == clips[to].trimEnd - clips[to].trimStart
                 maximum == 2 * (IF durFrom <= durTo THEN durFrom ELSE durTo)
             IN  /\ stored.duration <= maximum
                 /\ (last.duration # Undefined /\ last.duration[1] > maximum)
                      => stored.duration = maximum
                 /\ (last.duration # Undefined /\ last.duration[1] <= maximum)
                      => stored.duration = last.duration[1]

\* C6 witness: a request with a duration above the maximum was accepted.
C6_Witness ==
  /\ last.op = "setTransition"
  /\ ~last.ignored
  /\ ~last.threw
  /\ last.duration # Undefined
  /\ last.duration[1] > getMaxTransitionDuration(getClipDuration(clips[last.fromClipId]),
                                                 getClipDuration(clips[last.toClipId]))
  /\ createTransitionKey(last.fromClipId, last.toClipId) \in DOMAIN timeline.transitions

\* C9: a moveClip whose clipId is not in the timeline throws, and the step
\* leaves the timeline and every other field of the store as they were.
C9_MoveAbsentThrowsUnchanged ==
  [][(last'.op = "moveClip" /\ last'.clipId \notin Range(timeline.clipIds))
       => /\ last'.threw
          /\ timeline' = timeline
          /\ clips' = clips
          /\ currentTime' = currentTime
          /\ isPlaying' = isPlaying
          /\ selectedClipId' = selectedClipId]_vars

\* C9 witness: a moveClip threw on a store that holds a clip, a selection and
\* a clock that is not 0.
C9_Witness ==
  /\ last.op = "moveClip"
  /\ last.threw
  /\ Len(timeline.clipIds) = 1
  /\ selectedClipId # Null
  /\ currentTime > 0

\* C28: every transition stored in the store's timeline has a type among
\* crossfade, fadeToBlack and fadeToWhite; 'none' is never stored.
C28_NoStoredNone ==
  \A key \in DOMAIN timeline.transitions :
    timeline.transitions[key].type \in {"crossfade", "fadeToBlack", "fadeToWhite"}

\* C35: in the store, timeline.clipIds holds no id twice and holds exactly the
\* keys of the clips map; the selection survives no removal of its clip:
\* removeClip never leaves the removed id selected, reset leaves nothing
\* selected, and selecting an existing clip leaves a key of the map selected.
C35_StoreIdsConsistent ==
  /\ \A i, j \in 1..Len(timeline.clipIds) :
       i # j => timeline.clipIds[i] # timeline.clipIds[j]
  /\ Range(timeline.clipIds) = DOMAIN clips
  /\ last.op = "removeClip" => selectedClipId # last.clipId
  /\ last.op = "reset" => selectedClipId = Null
  /\ (last.op = "selectClip" /\ last.clipId \in DOMAIN clips) =>
       selectedClipId \in DOMAIN clips

\* C35 witness: with two clips in the store and one of them selected, the
\* other was removed; the selected one is still there.
C35_Witness ==
  /\ last.op = "removeClip"
  /\ selectedClipId \in DOMAIN clips
  /\ selectedClipId # last.clipId
  /\ timeline.clipIds = <<selectedClipId>>

\* C36: in every store state 0 <= currentTime <= getTotalDuration().
C36_ClockWithinTimeline ==
  /\ 0 <= currentTime
  /\ currentTime <= getTimelineDuration(timeline, clips)

(***************************************************************************)
(* SpecResolve: getClipAtTime and getTimelineDuration as pure functions.   *)
(* Init draws a timeline of distinct ids, a trim window for each of its    *)
(* clips and a transition for any of its adjacent pairs; the one action    *)
(* queries the resolver at a time.                                         *)
(***************************************************************************)
\* Trim windows <<trimStart, trimEnd>> a clip may have.
ClipWindows == {<<0, 4>>, <<0, 6>>, <<1, 2>>}

AdjacentKeys(ids) ==
  {createTransitionKey(ids[i], ids[i + 1]) : i \in 1..(Len(ids) - 1)}

InitResolve ==
  /\ \E n \in 0..Cardinality(Ids) :
       \E ids \in [1..n -> Ids] :
         /\ \A i, j \in 1..n : i # j => ids[i] # ids[j]
         /\ \E w \in [Range(ids) -> ClipWindows] :
              clips = [id \in Range(ids) |->
                         [id |-> id, trimStart |-> w[id][1], trimEnd |-> w[id][2]]]
         /\ \E keys \in SUBSET AdjacentKeys(ids) :
              \E tr \in [keys -> TransitionValues] :
                timeline = [clipIds |-> ids, transitions |-> tr]
  /\ currentTime = 0
  /\ isPlaying = FALSE
  /\ selectedClipId = Null
  /\ player = CreatePlayer({})
  /\ last = [op |-> "init"]

CallGetClipAtTime ==
  \E time \in (-1)..MaxT :
    /\ last' = [op |-> "getClipAtTime", time |-> time,
                result |-> getClipAtTime(timeline, clips, time)]
    /\ UNCHANGED <<player, clips, timeline, currentTime, isPlaying, selectedClipId>>

NextResolve == CallGetClipAtTime

SpecResolve == InitResolve /\ [][NextResolve]_vars

(***************************************************************************)
(* Claims about the position model (SpecResolve)                           *)
(***************************************************************************)
AllClipsPresent == Range(timeline.clipIds) \subseteq DOMAIN clips

EffectiveDuration(id) == clips[id].trimEnd - clips[id].trimStart

RECURSIVE PrefixDuration(_)
\* Sum of the effective durations of the first k clips of the sequence.
PrefixDuration(k) ==
  IF k = 0 THEN 0 ELSE PrefixDuration(k - 1) + EffectiveDuration(timeline.clipIds[k])

\* Every transition of the map sits on an adjacent pair and is no longer than
\* 2*min of the two clips' effective durations.
TransitionsRespectMaximum ==
  \A i \in 1..(Len(timeline.clipIds) - 1) :
    LET key == createTransitionKey(timeline.clipIds[i], timeline.clipIds[i + 1])
        durA == EffectiveDuration(timeline.clipIds[i])
        durB == EffectiveDuration(timeline.clipIds[i + 1])
    IN  key \in DOMAIN timeline.transitions
          => timeline.transitions[key].duration <= 2 * (IF durA <= durB THEN durA ELSE durB)

\* C2: with no transitions and all clips present, getClipAtTime at every t in
\* [0, totalDuration) is Single, of the clip whose span [sum of the durations
\* before it, that sum plus its own duration) holds t, with relativeTime =
\* trimStart + offset in the span, inside [trimStart, trimEnd); the spans
\* follow one another from 0 to totalDuration.
C2_NoTransitionsTile ==
  (/\ last.op = "getClipAtTime"
   /\ DOMAIN timeline.transitions = {}
   /\ AllClipsPresent) =>
    LET n == Len(timeline.clipIds)
        total == getTimelineDuration(timeline, clips)
        t == last.time
        r == last.result
    IN  /\ total = PrefixDuration(n)
        /\ (0 <= t /\ t < total) =>
             /\ r.type = "single"
             /\ \E i \in 1..n :
                  /\ r.clip = clips[timeline.clipIds[i]]
                  /\ PrefixDuration(i - 1) <= t
                  /\ t < PrefixDuration(i)
                  /\ r.relativeTime = r.clip.trimStart + (t - PrefixDuration(i - 1))
             /\ r.clip.trimStart <= r.relativeTime
             /\ r.relativeTime < r.clip.trimEnd

\* C2 witness: the third clip of a timeline without transitions, one with a
\* trim start above 0, is resolved.
C2_Witness ==
  /\ last.op = "getClipAtTime"
  /\ DOMAIN timeline.transitions = {}
  /\ Len(timeline.clipIds) = 3
  /\ last.result.type = "single"
  /\ last.result.clip = clips[timeline.clipIds[3]]
  /\ clips[timeline.clipIds[1]].trimStart > 0
  /\ last.result.relativeTime > last.result.clip.trimStart

\* The timeline [A(trim 0-4), B(trim 0-6)] with a crossfade of 2 between them.
Scenario ==
  /\ timeline.clipIds = <<IdA, IdB>>
  /\ clips[IdA] = [id |-> IdA, trimStart |-> 0, trimEnd |-> 4]
  /\ clips[IdB] = [id |-> IdB, trimStart |-> 0, trimEnd |-> 6]
  /\ DOMAIN timeline.transitions = {createTransitionKey(IdA, IdB)}
  /\ timeline.transitions[createTransitionKey(IdA, IdB)].type = "crossfade"
  /\ timeline.transitions[createTransitionKey(IdA, IdB)].duration = 2

\* C4: in the scenario getTimelineDuration is 8, getClipAtTime(1) is
\* Single{A, 1}, getClipAtTime(3) is Transition with progress 0.5, the
\* Transition results are those at t in [2,4), and getClipAtTime(5) is
\* Single{B, 3}.
C4_Scenario ==
  Scenario =>
    /\ getTimelineDuration(timeline, clips) = 8
    /\ last.op = "getClipAtTime" =>
         LET t == last.time
             r == last.result
         IN  /\ t = 1 => r = [type |-> "single", clip |-> clips[IdA], relativeTime |-> 1]
             /\ t = 3 => /\ r.type = "transition"
                         /\ r.outgoing.clip = clips[IdA]
                         /\ r.incoming.clip = clips[IdB]
                         /\ 2 * r.progress.num = r.progress.den
             /\ r.type = "transition" <=> (2 <= t /\ t < 4)
             /\ t = 5 => r = [type |-> "single", clip |-> clips[IdB], relativeTime |-> 3]

\* C4 witness: the scenario queried at t = 3.
C4_Witness ==
  /\ Scenario
  /\ last.op = "getClipAtTime"
  /\ last.time = 3
  /\ last.result.type = "transition"

\* C3: with exactly one transition, of duration d <= 2*min(durA, durB), between
\* adjacent clips A and B, getClipAtTime is Transition{A, B} with progress
\* (t - B.startInTimeline)/d at every t in [B.startInTimeline, A.end), is
\* Single{A} just before that interval (where that is a time >= 0) and
\* Single{B} at its end.
C3_OneTransitionZone ==
  (/\ last.op = "getClipAtTime"
   /\ AllClipsPresent
   /\ TransitionsRespectMaximum
   /\ Cardinality(DOMAIN timeline.transitions) = 1) =>
    \A i \in 1..(Len(timeline.clipIds) - 1) :
      LET idA == timeline.clipIds[i]
          idB == timeline.clipIds[i + 1]
          key == createTransitionKey(idA, idB)
          positions == calculateClipPositions(timeline, clips)
          startB == positions[i + 1].startInTimeline
          endA == positions[i].startInTimeline + EffectiveDuration(idA)
          t == last.time
          r == last.result
      IN  key \in DOMAIN timeline.transitions =>
            /\ (startB <= t /\ t < endA) =>
                 /\ r.type = "transition"
                 /\ r.outgoing.clip = clips[idA]
                 /\ r.incoming.clip = clips[idB]
                 /\ r.progress.num * timeline.transitions[key].duration
                      = (t - startB) * r.progress.den
            /\ (t = startB - 1 /\ t >= 0) => (r.type = "single" /\ r.clip = clips[idA])
            /\ t = endA => (r.type = "single" /\ r.clip = clips[idB])

\* C5: with transitions within the maximum, getClipAtTime is Empty at every
\* t >= getTimelineDuration; on the empty timeline it is Empty at every t and
\* getTimelineDuration is 0.
C5_EmptyPastEnd ==
  (/\ last.op = "getClipAtTime"
   /\ AllClipsPresent
   /\ TransitionsRespectMaximum) =>
    /\ last.time >= getTimelineDuration(timeline, clips) => last.result.type = "empty"
    /\ Len(timeline.clipIds) = 0 =>
         (last.result.type = "empty" /\ getTimelineDuration(timeline, clips) = 0)

\* C29: with all clips present and transitions within the maximum, whenever t
\* lies in the zone [start of the next clip, end of the clip) of an adjacent
\* pair that has a transition, getClipAtTime(t) is that pair's Transition
\* result (and so never Single).
C29_TransitionZoneWins ==
  (/\ last.op = "getClipAtTime"
   /\ AllClipsPresent
   /\ TransitionsRespectMaximum) =>
    LET positions == calculateClipPositions(timeline, clips)
        ids == timeline.clipIds
    IN  \A i \in 1..(Len(ids) - 1) :
          (/\ HasTransition(timeline, ids[i], ids[i + 1])
           /\ last.time >= positions[i + 1].startInTimeline
           /\ last.time < positions[i].startInTimeline + EffectiveDuration(ids[i])) =>
            /\ last.result.type = "transition"
            /\ last.result.outgoing.clip = clips[ids[i]]
            /\ last.result.incoming.clip = clips[ids[i + 1]]

\* C31: with all clips present and transitions within the maximum, every
\* startInTimeline of calculateClipPositions is >= 0 and no clip starts
\* before the clip that precedes it in the sequence.
C31_PositionsNonDecreasing ==
  (/\ last.op = "getClipAtTime"
   /\ AllClipsPresent
   /\ TransitionsRespectMaximum) =>
    LET positions == calculateClipPositions(timeline, clips)
    IN  /\ \A i \in 1..Len(positions) : positions[i].startInTimeline >= 0
        /\ \A i \in 1..(Len(positions) - 1) :
             positions[i].startInTimeline <= positions[i + 1].startInTimeline

\* C32: with all clips present and transitions within the maximum, every
\* Transition result of getClipAtTime at a t >= 0 has each of its two relative
\* times inside the trim window [trimStart, trimEnd) of its clip.
C32_RelativeTimesInsideWindows ==
  (/\ last.op = "getClipAtTime"
   /\ last.time >= 0
   /\ last.result.type = "transition"
   /\ AllClipsPresent
   /\ TransitionsRespectMaximum) =>
    /\ last.result.outgoing.relativeTime >= last.result.outgoing.clip.trimStart
    /\ last.result.outgoing.relativeTime < last.result.outgoing.clip.trimEnd
    /\ last.result.incoming.relativeTime >= last.result.incoming.clip.trimStart
    /\ last.result.incoming.relativeTime < last.result.incoming.clip.trimEnd

\* C33: on a non-empty timeline with all clips present and transitions within
\* the maximum, getTimelineDuration is the start of the last clip plus its
\* effective duration, and getClipAtTime is not Empty at any t in
\* [0, getTimelineDuration).
C33_DurationIsLastClipEnd ==
  (/\ last.op = "getClipAtTime"
   /\ Len(timeline.clipIds) > 0
   /\ AllClipsPresent
   /\ TransitionsRespectMaximum) =>
    LET positions == calculateClipPositions(timeline, clips)
        n == Len(timeline.clipIds)
        total == getTimelineDuration(timeline, clips)
    IN  /\ total = positions[n].startInTimeline + EffectiveDuration(timeline.clipIds[n])
        /\ (0 <= last.time /\ last.time < total) => last.result.type # "empty"

(***************************************************************************)
(* SpecPlayback: the preview of a fixed timeline.  The user plays, pauses  *)
(* and seeks; the decoders that play advance on their own and pause at the *)
(* end of their media; every change of isPlaying or currentTime is         *)
(* followed, before anything else happens, by the pass of the hook's       *)
(* effects; the handler of a rejected play() runs before the user acts     *)
(* again; a requested animation                                            *)
(* frame runs one tick.  last records the callback that ran, the decoder   *)
(* commands it sent and, for a tick, the state it started from.            *)
(***************************************************************************)
ClipsA == MapSet(EmptyMap, IdA, createClip(IdA, 200))

ClipsAB == MapSet(ClipsA, IdB, createClip(IdB, 400))

TimelineA == addClipToTimeline(createTimeline, IdA)

TimelineAB == addClipToTimeline(TimelineA, IdB)

PlaybackConfigs ==
  { [clips |-> ClipsA, timeline |-> TimelineA],
    [clips |-> ClipsAB, timeline |-> TimelineAB],
    [clips |-> ClipsAB,
     timeline |-> setTransition(TimelineAB, IdA, IdB,
                                StoreTransition(ClipsAB, IdA, IdB, "crossfade", <<100>>))] }

SeekTimes == {0, 150, 600}

AdvanceSteps == {50, 100}

InitPlayback ==
  /\ \E c \in PlaybackConfigs :
       /\ clips = c.clips
       /\ timeline = c.timeline
       /\ player = CreatePlayer(Range(c.timeline.clipIds))
  /\ currentTime = 0
  /\ isPlaying = FALSE
  /\ selectedClipId = Null
  /\ last = [op |-> "init"]

\* The effects have run for the store state as it is.
Settled ==
  /\ player.seenPlaying = isPlaying
  /\ player.seenTime = currentTime

PlayingChanged == player.seenPlaying # isPlaying

UserPlay ==
  /\ Settled
  /\ ~player.onPause
  /\ isPlaying' = TRUE
  /\ last' = [op |-> "play"]
  /\ UNCHANGED <<clips, timeline, currentTime, selectedClipId, player>>

UserPause ==
  /\ Settled
  /\ ~player.onPause
  /\ isPlaying' = FALSE
  /\ last' = [op |-> "pause"]
  /\ UNCHANGED <<clips, timeline, currentTime, selectedClipId, player>>

UserSeek ==
  \E time \in SeekTimes :
    /\ Settled
    /\ ~player.onPause
    /\ currentTime' = Max(0, time)
    /\ player' = [player EXCEPT !.published = Undefined]
    /\ last' = [op |-> "seek", time |-> time]
    /\ UNCHANGED <<clips, timeline, isPlaying, selectedClipId>>

\* A playing decoder moves on, at most to the end of its media.
DecoderAdvance ==
  \E id \in DOMAIN player.videos, step \in AdvanceSteps :
    /\ Settled
    /\ ~player.videos[id].paused
    /\ player.videos[id].currentTime < SourceDuration(clips[id])
    /\ player' = [player EXCEPT !.videos[id].currentTime =
                                   Min(@ + step, SourceDuration(clips[id]))]
    /\ last' = [op |-> "advance", id |-> id]
    /\ UNCHANGED <<clips, timeline, currentTime, isPlaying, selectedClipId>>

\* A decoder that played to the end of its media becomes paused.
DecoderEnded ==
  \E id \in DOMAIN player.videos :
    /\ Settled
    /\ ~player.videos[id].paused
    /\ player.videos[id].currentTime >= SourceDuration(clips[id])
    /\ player' = [player EXCEPT !.videos[id].paused = TRUE]
    /\ last' = [op |-> "ended", id |-> id]
    /\ UNCHANGED <<clips, timeline, currentTime, isPlaying, selectedClipId>>

\* The handler of a rejected play() that calls onPause, the store's pause.
PlayRejected ==
  /\ Settled
  /\ player.onPause
  /\ isPlaying' = FALSE
  /\ player' = [player EXCEPT !.onPause = FALSE]
  /\ last' = [op |-> "onPause"]
  /\ UNCHANGED <<clips, timeline, currentTime, selectedClipId>>

\* The pass of the hook's effects after a render with changed dependencies:
\* the cleanup of the sync loop effect, then the play/pause effect, the scrub
\* effect and the sync loop effect, which cancels the frame when not playing
\* and otherwise requests the first tick of a loop with fresh locals.
EffectsStep(acc) ==
    LET s1 == IF PlayingChanged THEN PlayPauseBody(Begin, acc) ELSE Begin
        s2 == ScrubBody([s1 EXCEPT !.log = <<>>])
        cleaned == CancelFrame(player)
        looped == IF isPlaying THEN RequestFrame(cleaned) ELSE CancelFrame(cleaned)
    IN  /\ ~Settled
        /\ player' = IF PlayingChanged
                       THEN [looped EXCEPT !.videos = s2.videos,
                                           !.onPause = @ \/ s1.onPause,
                                           !.lastClipId = IF isPlaying THEN Null ELSE @,
                                           !.wasInTransition = IF isPlaying THEN FALSE ELSE @,
                                           !.seenPlaying = isPlaying,
                                           !.seenTime = currentTime,
                                           !.published = Undefined]
                       ELSE [player EXCEPT !.videos = s2.videos, !.seenTime = currentTime]
        /\ last' = [op |-> "effects", playingChanged |-> PlayingChanged,
                    playPause |-> s1.log, scrub |-> s2.log]
        /\ UNCHANGED <<clips, timeline, currentTime, isPlaying, selectedClipId>>

RunEffects == \E acc \in [DOMAIN clips -> BOOLEAN] : EffectsStep(acc)

\* The callback of the pending frame: syncPlayback, which requests the next
\* frame on the paths that go on.
TickStep(elapsed, acc) ==
    LET r == syncPlayback(elapsed, acc)
        ran == FrameRan(player)
        next == IF r.frame THEN RequestFrame(ran) ELSE ran
    IN  /\ player.frame
        /\ isPlaying' = r.isPlaying
        /\ currentTime' = r.currentTime
        /\ player' = [next EXCEPT !.videos = r.s.videos,
                                    !.lastClipId = r.lastClipId,
                                    !.wasInTransition = r.wasInTransition,
                                    !.published = r.published]
        /\ last' = [op |-> "tick", log |-> r.s.log,
                    before |-> [isPlaying |-> isPlaying, currentTime |-> currentTime,
                                videos |-> player.videos,
                                lastClipId |-> player.lastClipId,
                                wasInTransition |-> player.wasInTransition,
                                published |-> player.published]]
        /\ UNCHANGED <<clips, timeline, selectedClipId>>

\* A requested animation frame runs syncPlayback.
Tick ==
  \E elapsed \in BOOLEAN, acc \in [DOMAIN clips -> BOOLEAN] :
    Settled /\ TickStep(elapsed, acc)

NextPlayback ==
  \/ UserPlay
  \/ UserPause
  \/ UserSeek
  \/ DecoderAdvance
  \/ DecoderEnded
  \/ PlayRejected
  \/ RunEffects
  \/ Tick

SpecPlayback == InitPlayback /\ [][NextPlayback]_vars

(***************************************************************************)
(* Claims about the playback synchronizer (SpecPlayback)                   *)
(***************************************************************************)
\* The decoders that are playing.
PlayingDecoders(videos) == {id \in DOMAIN videos : ~videos[id].paused}

\* The commands the last callback sent.
LastLog ==
  IF last.op = "tick" THEN last.log
  ELSE IF last.op = "effects" THEN last.playPause \o last.scrub
  ELSE <<>>

\* Some play() of the log was rejected.
RejectedPlay(log) ==
  \E i \in 1..Len(log) : log[i].cmd = "play" /\ log[i].arg.rejected

\* The seek targets that the log holds for decoder id.
SeekTargets(log, id) ==
  {log[i].arg : i \in {j \in 1..Len(log) : log[j].id = id /\ log[j].cmd = "seek"}}

\* The position the last tick resolved: the resolver at the clock it read.
TickResolved == getClipAtTime(timeline, clips, last.before.currentTime)

\* A tick ran while playing.
TickWhilePlaying == last.op = "tick" /\ last.before.isPlaying

\* Fractions a and b are the same number; a is 1 - b.
SameFraction(a, b) == a.num * b.den = b.num * a.den

IsComplement(a, b) == a.num * b.den + b.num * a.den = a.den * b.den

\* C12: while playing, after every tick exactly the resolved clip's decoder
\* plays in Single mode and exactly the outgoing and the incoming decoder
\* play in Transition mode; while not playing no decoder plays.  A tick that
\* runs while a rejected start still waits for its onPause handler is left out.
C12_PlayingDecodersMatchPosition ==
  /\ (TickWhilePlaying /\ isPlaying /\ ~player.onPause) =>
       /\ TickResolved.type = "single" =>
            PlayingDecoders(player.videos) = {TickResolved.clip.id}
       /\ TickResolved.type = "transition" =>
            PlayingDecoders(player.videos)
              = {TickResolved.outgoing.clip.id, TickResolved.incoming.clip.id}
  /\ (~isPlaying /\ Settled) => PlayingDecoders(player.videos) = {}

\* C13: a tick taken while playing that resolves Empty sets isPlaying to
\* false and currentTime to 0 and requests no further tick.
C13_EmptyStopsAndResets ==
  (TickWhilePlaying /\ TickResolved.type = "empty") =>
    /\ ~isPlaying
    /\ currentTime = 0
    /\ ~player.frame

\* C13 witness: a tick resolved Empty at a clock past the end of the timeline.
C13_Witness ==
  /\ TickWhilePlaying
  /\ TickResolved.type = "empty"
  /\ last.before.currentTime > 0
  /\ last.before.currentTime >= getTimelineDuration(timeline, clips)

\* C14: in Single mode a tick that finds the primary decoder at or past
\* effectiveDuration - 0.05 s moves the clock to clipEnd + 0.001 s, or, when
\* that is at or past totalDuration - 0.01 s, stops playback with the clock at
\* 0; a tick that stops playback always leaves the clock at 0.  A tick that
\* runs while a rejected start still waits for its onPause handler is left out.
C14_BoundaryAdvance ==
  /\ (/\ TickWhilePlaying
      /\ ~player.onPause
      /\ TickResolved.type = "single"
      /\ last.before.lastClipId \in {Null, TickResolved.clip.id}) =>
       LET clip == TickResolved.clip
           position == last.before.videos[clip.id].currentTime - clip.trimStart
           clipEnd == getClipStartTime(timeline, clips, clip.id) + getClipDuration(clip)
           totalDuration == getTimelineDuration(timeline, clips)
       IN  position >= getClipDuration(clip) - 50 =>
             IF clipEnd + 1 >= totalDuration - 10
               THEN ~isPlaying /\ currentTime = 0
               ELSE isPlaying /\ currentTime = clipEnd + 1
  /\ (TickWhilePlaying /\ ~isPlaying) => currentTime = 0

\* C15: while playing, a clock value that a tick publishes is never below the
\* value the loop published before it.
C15_PublishedClockMonotonic ==
  (/\ TickWhilePlaying
   /\ isPlaying
   /\ last.before.published # Undefined
   /\ player.published # Undefined) =>
    player.published[1] >= last.before.published[1]

\* C16: once a play() was rejected and the handler it queued, if any, has
\* run, isPlaying is false.
C16_RejectedPlayStops ==
  (RejectedPlay(LastLog) /\ ~player.onPause) => ~isPlaying

\* C17: a tick in Transition mode repositions the incoming decoder, to its
\* expected relative time, exactly when the decoder is more than 0.15 s away
\* from it or paused, and never repositions the outgoing decoder.
C17_DriftCorrection ==
  (TickWhilePlaying /\ TickResolved.type = "transition") =>
    LET inc == TickResolved.incoming.clip.id
        out == TickResolved.outgoing.clip.id
        expectedTime == TickResolved.incoming.relativeTime
        before == last.before.videos[inc]
        drift == Abs(before.currentTime - expectedTime)
    IN  /\ SeekTargets(last.log, inc) # {} <=> (drift > 150 \/ before.paused)
        /\ SeekTargets(last.log, inc) \subseteq {expectedTime}
        /\ SeekTargets(last.log, out) = {}

\* C17 witness: a playing incoming decoder 0.3 s ahead was repositioned.
C17_Witness ==
  /\ TickWhilePlaying
  /\ TickResolved.type = "transition"
  /\ LET inc == TickResolved.incoming.clip.id
     IN  /\ ~last.before.videos[inc].paused
         /\ last.before.videos[inc].currentTime
              = TickResolved.incoming.relativeTime + 300
         /\ SeekTargets(last.log, inc) # {}

C19_ScrubRepositions ==
  (last.op = "effects" /\ ~isPlaying) =>
    LET result == getPositionResult
    IN  /\ \A i \in 1..Len(LastLog) : LastLog[i].cmd # "play"
        /\ PlayingDecoders(player.videos) = {}
        /\ result.type = "single" =>
             SeekTargets(last.scrub, result.clip.id) = {result.relativeTime}
        /\ result.type = "transition" =>
             /\ SeekTargets(last.scrub, result.outgoing.clip.id)
                  = {result.outgoing.relativeTime}
             /\ SeekTargets(last.scrub, result.incoming.clip.id)
                  = {result.incoming.relativeTime}
             /\ IsComplement(player.videos[result.outgoing.clip.id].volume,
                             result.progress)
             /\ SameFraction(player.videos[result.incoming.clip.id].volume,
                             result.progress)

\* C19 witness: the user moved the clock into a transition zone while paused.
C19_Witness ==
  /\ last.op = "effects"
  /\ ~last.playingChanged
  /\ ~isPlaying
  /\ getPositionResult.type = "transition"
  /\ getPositionResult.progress.num > 0

\* C20: after a tick in Transition mode the outgoing volume is 1 - progress
\* and the incoming volume is progress, and every volume a callback assigns
\* lies in [0, 1].
C20_CrossfadeVolumes ==
  /\ (TickWhilePlaying /\ TickResolved.type = "transition") =>
       /\ IsComplement(player.videos[TickResolved.outgoing.clip.id].volume,
                       TickResolved.progress)
       /\ SameFraction(player.videos[TickResolved.incoming.clip.id].volume,
                       TickResolved.progress)
  /\ \A i \in 1..Len(LastLog) :
       LastLog[i].cmd = "volume" =>
         /\ LastLog[i].arg.den > 0
         /\ 0 <= LastLog[i].arg.num
         /\ LastLog[i].arg.num <= LastLog[i].arg.den

\* C20 witness: a tick inside a transition zone, past its start, set a
\* volume strictly between 0 and 1 on the incoming decoder.
C20_Witness ==
  /\ TickWhilePlaying
  /\ TickResolved.type = "transition"
  /\ TickResolved.progress.num > 0
  /\ TickResolved.progress.num < TickResolved.progress.den
  /\ SameFraction(player.videos[TickResolved.incoming.clip.id].volume,
                  TickResolved.progress)

\* C30: every play() a tick issues goes to a decoder that is paused at that
\* moment; a tick never starts, or repositions and starts, a decoder that is
\* already playing.
C30_PlayOnlyWhenPaused ==
  last.op = "tick" =>
    \A i \in 1..Len(last.log) :
      last.log[i].cmd = "play" => last.log[i].arg.wasPaused

(***************************************************************************)
(* SpecVideoElements: useVideoElements, the manager of the decoder         *)
(* handles.  The store adds and removes clips; after every change of the   *)
(* clip collection the manager's effect runs before anything else; the     *)
(* playback hook starts handles; getOrCreateVideo is called for clips of   *)
(* the collection.  Here player is the manager's state: the handle map,    *)
(* the number of elements created so far (an element's handle is its       *)
(* creation number), the elements torn down so far in the state the        *)
(* teardown left them, and the clip collection the effect last ran for.    *)
(***************************************************************************)
MaxHandles == 4

\* document.createElement('video') with src set: a new element, paused.
createElement(handle, sourceUrl) ==
  [handle |-> handle, src |-> sourceUrl, paused |-> TRUE, currentTime |-> 0,
   volume |-> One]

\* Mutant: an element is created even when the id already has one.
getOrCreateVideo_AlwaysCreates(m, clipId, sourceUrl) ==
  LET video == createElement(m.created + 1, sourceUrl)
  IN  [m EXCEPT !.videos = MapSet(m.videos, clipId, video),
                !.created = m.created + 1, !.video = video]

\* getOrCreateVideo(clipId, sourceUrl); the element returned is m.video.
getOrCreateVideo(m, clipId, sourceUrl) ==
  IF clipId \in DOMAIN m.videos
    THEN [m EXCEPT !.video = m.videos[clipId]]
    ELSE LET video == createElement(m.created + 1, sourceUrl)
         IN  [m EXCEPT !.videos = MapSet(m.videos, clipId, video),
                       !.created = m.created + 1, !.video = video]

RECURSIVE PreloadEach(_, _, _, _)
\* clips.forEach(clip => getOrCreateVideo(clip.id, clip.sourceUrl)), from
\* 1-based index i of the collection's ids; a clip's id stands for its url.
PreloadEach(m, cl, ids, i) ==
  IF i > Len(ids) THEN m
  ELSE PreloadEach(IF ids[i] \in DOMAIN cl
                     THEN getOrCreateVideo(m, ids[i], cl[ids[i]].id) ELSE m,
                   cl, ids, i + 1)

RECURSIVE TeardownEach(_, _)
\* The forEach over the handle map, in insertion order: the element of an id
\* that is not in the collection is paused, its src emptied, its entry deleted.
TeardownEach(m, cl) ==
  LET stale == {id \in DOMAIN m.videos : id \notin DOMAIN cl}
  IN  IF stale = {} THEN m
      ELSE LET id == CHOOSE x \in stale :
                       \A y \in stale : m.videos[x].handle <= m.videos[y].handle
               video == [m.videos[id] EXCEPT !.paused = TRUE, !.src = <<>>]
           IN  TeardownEach([m EXCEPT !.videos = MapDelete(m.videos, id),
                                      !.released = Append(@, [id |-> id, video |-> video])],
                            cl)

\* The body of the manager's effect for the collection cl, whose ids were
\* inserted in the order ids.
SyncElements(m, cl, ids) == TeardownEach(PreloadEach(m, cl, ids, 1), cl)

CreateManager ==
  [videos |-> EmptyMap, created |-> 0, released |-> <<>>, seenClips |-> EmptyMap,
   video |-> Null]

InitVideoElements ==
  /\ clips = EmptyMap
  /\ timeline = createTimeline
  /\ currentTime = 0
  /\ isPlaying = FALSE
  /\ selectedClipId = Null
  /\ player = CreateManager
  /\ last = [op |-> "init"]

\* The manager's effect has run for the clip collection as it is.
ElementsSettled == player.seenClips = clips

ElementsAddClip ==
  /\ ElementsSettled
  /\ player.created < MaxHandles
  /\ AddClip

ElementsRemoveClip ==
  /\ ElementsSettled
  /\ RemoveClip

\* The playback hook starts an element.
ElementStarts ==
  \E id \in DOMAIN player.videos :
    /\ ElementsSettled
    /\ player.videos[id].paused
    /\ player' = [player EXCEPT !.videos[id].paused = FALSE]
    /\ last' = [op |-> "elementStarts", clipId |-> id]
    /\ UNCHANGED <<clips, timeline, currentTime, isPlaying, selectedClipId>>

CallGetOrCreateVideo ==
  \E id \in DOMAIN clips :
    /\ ElementsSettled
    /\ player' = getOrCreateVideo(player, id, clips[id].id)
    /\ last' = [op |-> "getOrCreateVideo", clipId |-> id, before |-> player]
    /\ UNCHANGED <<clips, timeline, currentTime, isPlaying, selectedClipId>>

SyncVideoElements ==
  /\ ~ElementsSettled
  /\ player' = [SyncElements(player, clips, timeline.clipIds) EXCEPT !.seenClips = clips]
  /\ last' = [op |-> "syncVideoElements", before |-> player]
  /\ UNCHANGED <<clips, timeline, currentTime, isPlaying, selectedClipId>>

NextVideoElements ==
  \/ ElementsAddClip
  \/ ElementsRemoveClip
  \/ ElementStarts
  \/ CallGetOrCreateVideo
  \/ SyncVideoElements

SpecVideoElements == InitVideoElements /\ [][NextVideoElements]_vars

(***************************************************************************)
(* Claims about the decoder handles (SpecVideoElements)                    *)
(***************************************************************************)
\* The entries of the teardown record that hold the element with this handle.
ReleasedAs(handle) ==
  {i \in 1..Len(player.released) : player.released[i].video.handle = handle}

\* C21: once the manager's effect has run, a handle exists for exactly the
\* ids of the clip collection; getOrCreateVideo for an id that has a handle
\* returns that handle and creates none; the handle of a removed clip is
\* paused, released and dropped, and no handle is torn down twice.
C21_HandlesFollowClips ==
  /\ ElementsSettled => DOMAIN player.videos = DOMAIN clips
  /\ \A id \in DOMAIN player.videos : ReleasedAs(player.videos[id].handle) = {}
  /\ \A h \in 1..player.created : Cardinality(ReleasedAs(h)) <= 1
  /\ (last.op = "getOrCreateVideo" /\ last.clipId \in DOMAIN last.before.videos) =>
       /\ player.video = last.before.videos[last.clipId]
       /\ player.videos = last.before.videos
       /\ player.created = last.before.created
  /\ last.op = "syncVideoElements" =>
       \A id \in (DOMAIN last.before.videos) \ (DOMAIN clips) :
         /\ id \notin DOMAIN player.videos
         /\ \E i \in ReleasedAs(last.before.videos[id].handle) :
              /\ player.released[i].video.paused
              /\ player.released[i].video.src = <<>>

\* C21 witness: the effect tore down the playing handle of a removed clip
\* and kept the handle of a clip that stayed.
C21_Witness ==
  /\ last.op = "syncVideoElements"
  /\ \E id \in (DOMAIN last.before.videos) \ (DOMAIN clips) :
       ~last.before.videos[id].paused
  /\ \E id \in DOMAIN clips :
       /\ id \in DOMAIN last.before.videos
       /\ player.videos[id] = last.before.videos[id]

(***************************************************************************)
(* VideoExporter and useExport: the export of the clips in timeline order  *)
(* to one recording.  In this part of the model one time unit is one       *)
(* frame period (1/frameRate seconds) and player is the export run: the    *)
(* store's exportStatus and exportProgress, the locals of                  *)
(* VideoExporter.export (clips, i, processedTime, totalDuration), the      *)
(* recorder and the audio context it opened, the <video> element of the    *)
(* clip being rendered, and what the run has done so far (started,         *)
(* processed, frames, reports).  media is the length of each clip's file.  *)
(***************************************************************************)
\* A trim window starts at 0..MaxTrimStart and is 1..MaxWindow long.
MaxTrimStart == 1
MaxWindow == 2

\* The decoder moves 0..MaxAdvance frame periods between two animation frames.
MaxAdvance == 2

\* At most MaxFrames frames are composited for one clip.
MaxFrames == 3

\* What a clip's file holds beyond its trimEnd.
MediaTails == {0, 1}

trimClip(clip, trimStart, trimEnd) ==
  [clip EXCEPT !.trimStart = trimStart, !.trimEnd = trimEnd]

RECURSIVE KeepPresent(_, _, _)
KeepPresent(ids, cl, i) ==
  IF i > Len(ids) THEN <<>>
  ELSE IF ids[i] \in DOMAIN cl
       THEN <<cl[ids[i]]>> \o KeepPresent(ids, cl, i + 1)
       ELSE KeepPresent(ids, cl, i + 1)

getClipsInOrder(tl, cl) == KeepPresent(tl.clipIds, cl, 1)

RECURSIVE TotalOf(_, _)
TotalOf(list, i) ==
  IF i > Len(list) THEN 0
  ELSE getClipDuration(list[i]) + TotalOf(list, i + 1)

Progress(current, total, num, den) ==
  [current |-> current, total |-> total, percentage |-> [num |-> num, den |-> den]]

\* onProgress is the store's setExportProgress; reports keeps every value it was given.
Report(e, progress) ==
  [e EXCEPT !.exportProgress = progress, !.reports = Append(@, progress)]

\* The top of the loop body for clip i, up to the promise renderClip returns.
BeginClip_ReportsNext(e) ==
  LET clip == e.clips[e.i]
      r == Report(e, Progress(e.i, Len(e.clips), e.processedTime * 100, e.totalDuration))
  IN  [r EXCEPT !.pc = "loading",
                !.video = [clip |-> clip, currentTime |-> 0, paused |-> TRUE, ended |-> FALSE],
                !.frames = <<>>,
                !.started = Append(@, clip.id)]

BeginClip(e) ==
  LET clip == e.clips[e.i]
      r == Report(e, Progress(e.i - 1, Len(e.clips), e.processedTime * 100, e.totalDuration))
  IN  [r EXCEPT !.pc = "loading",
                !.video = [clip |-> clip, currentTime |-> 0, paused |-> TRUE, ended |-> FALSE],
                !.frames = <<>>,
                !.started = Append(@, clip.id)]

\* A rejection of renderClip's promise leaves export, which has no handler
\* for it, and reaches the catch block of exportVideo, which rethrows.
Fail(e) ==
  [e EXCEPT !.pc = "error", !.exportStatus = "error", !.exportProgress = Null,
            !.threw = TRUE]

\* After the loop: the recorder is told to stop, which queues its stop
\* event, and export waits for the audio context to close.
EndLoop(e) ==
  [e EXCEPT !.pc = "closing", !.recorder = "inactive", !.stopEvent = TRUE,
            !.audioContext = "closing"]

\* renderClip's promise resolved: the rest of the loop body and the next pass.
ClipDone_CountsOnly(e) ==
  LET done == [e EXCEPT !.i = @ + 1,
                        !.processed = Append(@, [id |-> e.video.clip.id,
                                                 from |-> e.video.clip.trimStart,
                                                 to |-> e.video.currentTime,
                                                 frames |-> Len(e.frames)])]
  IN  IF done.i <= Len(done.clips) THEN BeginClip(done) ELSE EndLoop(done)

ClipDone(e) ==
  LET done == [e EXCEPT !.processedTime = @ + getClipDuration(e.video.clip),
                        !.i = @ + 1,
                        !.processed = Append(@, [id |-> e.video.clip.id,
                                                 from |-> e.video.clip.trimStart,
                                                 to |-> e.video.currentTime,
                                                 frames |-> Len(e.frames)])]
  IN  IF done.i <= Len(done.clips) THEN BeginClip(done) ELSE EndLoop(done)

\* One call of renderFrame with the decoder where it is.
renderFrame(e) ==
  LET video == e.video
      clip == video.clip
  IN  IF video.currentTime >= clip.trimEnd \/ video.ended
      THEN ClipDone([e EXCEPT !.video.paused = TRUE])
      ELSE [e EXCEPT !.frames =
              Append(@, [position |-> video.currentTime,
                         globalTime |-> e.processedTime
                                          + (video.currentTime - clip.trimStart)])]

CreateExport(media) ==
  [exportStatus |-> "idle", exportProgress |-> Null, pc |-> "idle", media |-> media,
   clips |-> <<>>, i |-> 0, processedTime |-> 0, totalDuration |-> 0,
   recorder |-> "none", audioContext |-> "none", stopEvent |-> FALSE,
   video |-> Null, frames |-> <<>>, started |-> <<>>, processed |-> <<>>,
   reports |-> <<>>, blob |-> FALSE, downloaded |-> FALSE, threw |-> FALSE]

(***************************************************************************)
(* SpecExport: one run of exportVideo on a timeline of up to two clips,    *)
(* each with a trim window, with or without a transition between them.     *)
(* Every action is one callback of the run.                                *)
(***************************************************************************)
ExportWindows ==
  {<<s, s + w, s + w + tail>> : s \in 0..MaxTrimStart, w \in 1..MaxWindow, tail \in MediaTails}

ExportTransitions ==
  {EmptyMap,
   MapSet(EmptyMap, createTransitionKey(IdA, IdB), createTransition(IdB, "crossfade", <<1>>))}

InitExport ==
  /\ \E ids \in {<<>>, <<IdA>>, <<IdA, IdB>>, <<IdB, IdA>>} :
       \E w \in [Range(ids) -> ExportWindows] :
         /\ clips = [id \in Range(ids) |->
                       trimClip(createClip(id, w[id][3]), w[id][1], w[id][2])]
         /\ \E tr \in (IF ids = <<IdA, IdB>> THEN ExportTransitions ELSE {EmptyMap}) :
              timeline = [clipIds |-> ids, transitions |-> tr]
         /\ player = CreateExport([id \in Range(ids) |-> w[id][3]])
  /\ currentTime = 0
  /\ isPlaying = FALSE
  /\ selectedClipId = Null
  /\ last = [op |-> "init"]

ExportVideo ==
  /\ player.pc = "idle"
  /\ LET list == getClipsInOrder(timeline, clips)
     IN  IF Len(list) = 0
         THEN player' = [player EXCEPT !.pc = "refused", !.threw = TRUE]
         ELSE LET shown == Report([player EXCEPT !.exportStatus = "loading"],
                                  Progress(0, Len(list), 0, 1))
              IN  player' = BeginClip([shown EXCEPT !.clips = list,
                                                    !.totalDuration = TotalOf(list, 1),
                                                    !.recorder = "recording",
                                                    !.audioContext = "running",
                                                    !.i = 1,
                                                    !.processedTime = 0])
  /\ last' = [op |-> "exportVideo"]
  /\ UNCHANGED <<clips, timeline, currentTime, isPlaying, selectedClipId>>

\* video.onloadeddata: the element is sent to trimStart and asked to play.
LoadedData ==
  /\ player.pc = "loading"
  /\ player' = [player EXCEPT !.pc = "starting",
                              !.video.currentTime =
                                 Min(player.video.clip.trimStart,
                                     player.media[player.video.clip.id])]
  /\ last' = [op |-> "loadedData"]
  /\ UNCHANGED <<clips, timeline, currentTime, isPlaying, selectedClipId>>

\* video.onerror
LoadError ==
  /\ player.pc = "loading"
  /\ player' = Fail(player)
  /\ last' = [op |-> "loadError"]
  /\ UNCHANGED <<clips, timeline, currentTime, isPlaying, selectedClipId>>

\* video.play() resolved: renderFrame is called for the first time.
PlayStarted ==
  /\ player.pc = "starting"
  /\ player' = renderFrame([player EXCEPT !.pc = "rendering", !.video.paused = FALSE])
  /\ last' = [op |-> "playStarted"]
  /\ UNCHANGED <<clips, timeline, currentTime, isPlaying, selectedClipId>>

\* video.play() rejected
PlayFailed ==
  /\ player.pc = "starting"
  /\ player' = Fail(player)
  /\ last' = [op |-> "playFailed"]
  /\ UNCHANGED <<clips, timeline, currentTime, isPlaying, selectedClipId>>

\* requestAnimationFrame calls renderFrame again; the playing element has
\* moved by itself since the previous call, by as much as the decoder made of it.
AnimationFrame ==
  /\ player.pc = "rendering"
  /\ \E advance \in 0..MaxAdvance :
       LET length == player.media[player.video.clip.id]
           position == Min(player.video.currentTime + advance, length)
           moved == [player EXCEPT !.video.currentTime = position,
                                   !.video.ended = (position = length),
                                   !.video.paused = (position = length)]
       IN  /\ position < moved.video.clip.trimEnd /\ ~moved.video.ended
               => Len(player.frames) < MaxFrames
           /\ player' = renderFrame(moved)
  /\ last' = [op |-> "animationFrame"]
  /\ UNCHANGED <<clips, timeline, currentTime, isPlaying, selectedClipId>>

\* The promise of audioContext.close() resolved: export sets onstop and waits.
AudioClosed ==
  /\ player.pc = "closing"
  /\ player' = [player EXCEPT !.pc = "stopping", !.audioContext = "closed"]
  /\ last' = [op |-> "audioClosed"]
  /\ UNCHANGED <<clips, timeline, currentTime, isPlaying, selectedClipId>>

\* The recorder's stop event, with onstop set: export reports completion and
\* returns the blob, exportVideo downloads it.
RecorderStopped ==
  /\ player.stopEvent
  /\ player.pc = "stopping"
  /\ LET n == Len(player.clips)
         r == Report([player EXCEPT !.stopEvent = FALSE], Progress(n, n, 100, 1))
     IN  player' = [r EXCEPT !.pc = "success", !.blob = TRUE, !.downloaded = TRUE,
                             !.exportStatus = "success", !.exportProgress = Null]
  /\ last' = [op |-> "recorderStopped"]
  /\ UNCHANGED <<clips, timeline, currentTime, isPlaying, selectedClipId>>

\* The recorder's stop event while export still waits for the audio context:
\* onstop is not set yet and nothing hears the event.
RecorderStoppedUnheard ==
  /\ player.stopEvent
  /\ player.pc = "closing"
  /\ player' = [player EXCEPT !.stopEvent = FALSE]
  /\ last' = [op |-> "recorderStoppedUnheard"]
  /\ UNCHANGED <<clips, timeline, currentTime, isPlaying, selectedClipId>>

NextExport ==
  \/ ExportVideo
  \/ LoadedData
  \/ LoadError
  \/ PlayStarted
  \/ PlayFailed
  \/ AnimationFrame
  \/ AudioClosed
  \/ RecorderStopped
  \/ RecorderStoppedUnheard

SpecExport == InitExport /\ [][NextExport]_vars

(***************************************************************************)
(* Claims about the export (SpecExport)                                    *)
(***************************************************************************)
ExportRunning == player.pc \in {"loading", "starting", "rendering"}

LoopLeft == player.pc \in {"closing", "stopping", "success"}

\* C22: export takes the clips in timeline order and one at a time, composites
\* each clip's frames from its trimStart and only inside its trim window,
\* leaves a clip only once its decoder is at or past trimEnd, and has
\* processed, when the loop is left, the sum of the clips' effective
\* durations, which is getTimelineDuration when the timeline has no transition.
C22_ExportInTimelineOrder ==
  player.pc \notin {"idle", "refused"} =>
    LET list == getClipsInOrder(timeline, clips)
    IN  /\ Len(player.started) <= Len(list)
        /\ \A k \in 1..Len(player.started) : player.started[k] = list[k].id
        /\ Len(player.started) - Len(player.processed)
              = (IF ExportRunning \/ player.pc = "error" THEN 1 ELSE 0)
        /\ \A k \in 1..Len(player.processed) :
              /\ player.processed[k].id = list[k].id
              /\ player.processed[k].from = list[k].trimStart
              /\ player.processed[k].to >= list[k].trimEnd
        /\ \A k \in 1..Len(player.frames) :
              /\ player.frames[k].position >= player.video.clip.trimStart
              /\ player.frames[k].position < player.video.clip.trimEnd
        /\ player.frames # <<>> =>
              player.frames[1].position = player.video.clip.trimStart
        /\ LoopLeft =>
              /\ Len(player.processed) = Len(list)
              /\ player.processedTime = TotalOf(list, 1)
              /\ timeline.transitions = EmptyMap =>
                    player.processedTime = getTimelineDuration(timeline, clips)

C22_Witness ==
  /\ player.pc = "success"
  /\ Len(player.processed) = 2
  /\ timeline.transitions = EmptyMap
  /\ player.processed[2].from > 0
  /\ player.processedTime = 3

SameOrLater(p, q) ==
  /\ p.current <= q.current
  /\ p.percentage.num * q.percentage.den <= q.percentage.num * p.percentage.den

C24_SyntheticDecodeClock ==
  /\ \A k \in 1..Len(player.frames) :
        player.frames[k].position = player.video.clip.trimStart + (k - 1)
  /\ \A k \in 1..Len(player.processed) :
        /\ player.processed[k].frames = getClipDuration(player.clips[k])
        /\ player.processed[k].to = player.clips[k].trimEnd

\* C25: once a clip has failed to load or to start playing, no later clip
\* has been started, the caller has the failure, there is no blob and no
\* download, exportStatus is 'error' with exportProgress null, and the
\* recorder and the audio context of the export are stopped and closed.
C25_FailureAbortsAndReleases ==
  player.pc = "error" =>
    /\ Len(player.started) = Len(player.processed) + 1
    /\ player.threw
    /\ ~player.blob
    /\ ~player.downloaded
    /\ player.exportStatus = "error"
    /\ player.exportProgress = Null
    /\ player.recorder = "inactive"
    /\ player.audioContext = "closed"

\* C39: the global time export computes for a composited frame (the time the
\* overlays are tested against) is the clip's startInTimeline from
\* calculateClipPositions plus the frame's offset inside the clip.
C39_ExportGlobalTimeIsTimelineTime ==
  \A k \in 1..Len(player.frames) :
    player.frames[k].globalTime
      = getClipStartTime(timeline, clips, player.video.clip.id)
          + (player.frames[k].position - player.video.clip.trimStart)

\* A step of the export that ends it with nothing produced and everything
\* it had opened released, without starting another clip.
CancelledStep ==
  /\ NextExport
  /\ player'.pc \notin {"loading", "starting", "rendering", "closing", "stopping"}
  /\ ~player'.blob
  /\ ~player'.downloaded
  /\ player'.recorder = "inactive"
  /\ player'.audioContext = "closed"
  /\ player'.started = player.started

\* C26: while an export is running with a clip still to start, it can be
\* cancelled: a step exists that ends it without starting another clip and
\* without a file, the recorder stopped and the audio context closed.
C26_CancellableBetweenClips ==
  ExportRunning /\ Len(player.started) < Len(player.clips) => ENABLED CancelledStep

(***************************************************************************)
(* SpecMissing: getClipAtTime and getTimelineDuration called with a clip   *)
(* collection that lacks some of the timeline's ids.  The timeline is one  *)
(* the Timeline functions build (distinct ids, transitions on adjacent     *)
(* pairs); the ids do not contain one another.                             *)
(***************************************************************************)
IdC == <<"c">>

InitMissing ==
  /\ \E ids \in {<<IdA, IdB>>, <<IdA, IdB, IdC>>} :
       /\ \E present \in SUBSET Range(ids) :
            \E w \in [present -> ClipWindows] :
              clips = [id \in present |->
                         [id |-> id, trimStart |-> w[id][1], trimEnd |-> w[id][2]]]
       /\ \E keys \in SUBSET AdjacentKeys(ids) :
            \E tr \in [keys -> TransitionValues] :
              timeline = [clipIds |-> ids, transitions |-> tr]
  /\ currentTime = 0
  /\ isPlaying = FALSE
  /\ selectedClipId = Null
  /\ player = CreatePlayer({})
  /\ last = [op |-> "init"]

CallResolvers ==
  \E time \in 0..MaxT :
    /\ last' = [op |-> "resolve", time |-> time,
                result |-> getClipAtTime(timeline, clips, time),
                duration |-> getTimelineDuration(timeline, clips)]
    /\ UNCHANGED <<player, clips, timeline, currentTime, isPlaying, selectedClipId>>

NextMissing == CallResolvers

SpecMissing == InitMissing /\ [][NextMissing]_vars

(***************************************************************************)
(* Claims about missing clips (SpecMissing)                                *)
(***************************************************************************)
RECURSIVE RemoveMissing(_, _, _)
\* removeClip applied to tl for each of the ids, from the i-th on, that has no
\* entry in cl.
RemoveMissing(tl, cl, ids) ==
  IF ids = <<>> THEN tl
  ELSE IF Head(ids) \in DOMAIN cl THEN RemoveMissing(tl, cl, Tail(ids))
       ELSE RemoveMissing(removeClipFromTimeline(tl, Head(ids)), cl, Tail(ids))

\* C27: with ids in clipIds that have no entry in the clip collection,
\* getClipAtTime and getTimelineDuration return what they return for the
\* timeline from which those ids were removed with removeClip.
C27_MissingIdsAreAbsent ==
  last.op = "resolve" =>
    LET cleaned == RemoveMissing(timeline, clips, timeline.clipIds)
    IN  /\ last.result = getClipAtTime(cleaned, clips, last.time)
        /\ last.duration = getTimelineDuration(cleaned, clips)

(***************************************************************************)
(* SpecInterleaved: the preview as in SpecPlayback, except that a frame    *)
(* that is pending when the store changes may come before the pass of the  *)
(* hook's effects that the change triggers: its callback then runs on the  *)
(* store state as it is, with the loop's locals as they are.               *)
(***************************************************************************)
\* A requested animation frame comes, after the pending pass of the effects
\* or before it.
AnyTick ==
  \E elapsed \in BOOLEAN, acc \in [DOMAIN clips -> BOOLEAN] :
    TickStep(elapsed, acc)

NextInterleaved ==
  \/ UserPlay
  \/ UserPause
  \/ UserSeek
  \/ DecoderAdvance
  \/ DecoderEnded
  \/ PlayRejected
  \/ RunEffects
  \/ AnyTick

SpecInterleaved == InitPlayback /\ [][NextInterleaved]_vars

\* C38: a tick that runs once isPlaying is false leaves currentTime and every
\* decoder as they were, sends no decoder command and requests no frame; no
\* frame is requested while another is pending, so that at most one chain of
\* ticks is scheduled; and once the effects have run for a paused store no
\* frame is pending at all.
C38_PausedTicksInertOneChain ==
  /\ player.orphans = 0
  /\ (Settled /\ ~isPlaying) => ~player.frame
  /\ (last.op = "tick" /\ ~last.before.isPlaying) =>
        /\ ~isPlaying
        /\ currentTime = last.before.currentTime
        /\ player.videos = last.before.videos
        /\ last.log = <<>>
        /\ ~player.frame

\* A frame requested before a pause came after it, before the effects ran.
C38_Witness ==
  /\ last.op = "tick"
  /\ ~last.before.isPlaying
  /\ ~Settled

(***************************************************************************)
(* SpecPlaybackFair: the preview left to itself.  The user seeks and       *)
(* presses play only while the preview is paused and does nothing while it *)
(* plays; every play() is accepted; every tick finds the publishing        *)
(* interval elapsed; between two ticks the media time of the playing       *)
(* decoders moves on by no more than the clip-end threshold.  The passes   *)
(* of the effects, the ticks, the end of media and the passing of time all *)
(* keep happening.                                                         *)
(***************************************************************************)
AllAccepted == [id \in DOMAIN clips |-> TRUE]

PlayWhilePaused == ~isPlaying /\ UserPlay

SeekWhilePaused == ~isPlaying /\ UserSeek

LiveEffects == EffectsStep(AllAccepted)

LiveTick == Settled /\ TickStep(TRUE, AllAccepted)

\* Every playing decoder moves on, at most to the end of its media, once
\* after a tick or a pass of the effects.
TimePasses ==
  LET videos == player.videos
      moved(id) == [videos[id] EXCEPT !.currentTime =
                      Min(@ + CLIP_END_THRESHOLD, SourceDuration(clips[id]))]
  IN  /\ Settled
      /\ last.op \in {"tick", "effects"}
      /\ \E id \in DOMAIN videos :
           /\ ~videos[id].paused
           /\ videos[id].currentTime < SourceDuration(clips[id])
      /\ player' = [player EXCEPT !.videos =
                      [id \in DOMAIN videos |->
                         IF videos[id].paused THEN videos[id] ELSE moved(id)]]
      /\ last' = [op |-> "timePasses"]
      /\ UNCHANGED <<clips, timeline, currentTime, isPlaying, selectedClipId>>

NextPlaybackFair ==
  \/ PlayWhilePaused
  \/ SeekWhilePaused
  \/ LiveEffects
  \/ LiveTick
  \/ TimePasses
  \/ DecoderEnded

SpecPlaybackFair ==
  /\ InitPlayback
  /\ [][NextPlaybackFair]_vars
  /\ WF_vars(LiveEffects)
  /\ WF_vars(LiveTick)
  /\ SF_vars(TimePasses)
  /\ WF_vars(DecoderEnded)

\* C37: playback left to itself terminates: whenever the preview plays, it
\* eventually is stopped with the clock at 0.
C37_PlaybackTerminates == isPlaying ~> (~isPlaying /\ currentTime = 0)

====
